---- MODULE Spec2Model ----
(***************************************************************************)
(* Model of the media authenticity scoring pipeline of                     *)
(* backend/app/ml/models.py: RealImageModel, RealVideoModel,               *)
(* RealAudioModel, VideoProcessor and the ModelManager operations that     *)
(* wrap them.                                                              *)
(*                                                                         *)
(* Numbers are exact rationals [n |-> numerator, d |-> denominator > 0],   *)
(* kept in lowest terms. Descriptors that the code obtains from numpy,     *)
(* OpenCV or librosa (an entropy, a standard deviation, an energy ratio)   *)
(* are inputs of the model, drawn from small grids; everything the code    *)
(* computes from them (clamps, weighted sums, thresholds, means,           *)
(* variances) is computed here as the code computes it.                    *)
(***************************************************************************)
EXTENDS Integers, Sequences, FiniteSets, TLC

VARIABLES model_manager, pc, call, vid, out, files, server

vars == <<model_manager, pc, call, vid, out, files, server>>

Workers == {"w1", "w2"}

None == "None"

(***************************************************************************)
(* Bounds of the model.                                                    *)
(***************************************************************************)
\* the longest video source, in decodable frames
MaxSrcFrames == 3
\* the most faces the face detector reports in one image
MaxFaces == 1
\* the longest source of the long-video specification, in decodable frames
MaxLongFrames == 61

(***************************************************************************)
(* Exact rational arithmetic.                                              *)
(***************************************************************************)
Abs(x) == IF x < 0 THEN -x ELSE x

Min(a, b) == IF a < b THEN a ELSE b

RECURSIVE GCD(_, _)
GCD(a, b) == IF b = 0 THEN a ELSE GCD(b, a % b)

R(n, d) ==
  LET g == GCD(Abs(n), d)
  IN  [n |-> n \div g, d |-> d \div g]

Zero == R(0, 1)
One == R(1, 1)
Half == R(1, 2)

\* Sums, products and comparisons cancel common factors before they multiply,
\* so that no intermediate value is larger than the result needs.
RAdd(x, y) ==
  LET g == GCD(x.d, y.d)
  IN  R(x.n * (y.d \div g) + y.n * (x.d \div g), (x.d \div g) * y.d)
RNeg(x) == [n |-> -x.n, d |-> x.d]
RSub(x, y) == RAdd(x, RNeg(y))
RMul(x, y) ==
  LET g1 == GCD(Abs(x.n), y.d)
      g2 == GCD(Abs(y.n), x.d)
  IN  R((x.n \div g1) * (y.n \div g2), (x.d \div g2) * (y.d \div g1))
\* x / y for y > 0
RDiv(x, y) == RMul(x, [n |-> y.d, d |-> y.n])
RLt(x, y) ==
  LET g == GCD(x.d, y.d)
  IN  x.n * (y.d \div g) < y.n * (x.d \div g)
RLe(x, y) == ~RLt(y, x)
RGt(x, y) == RLt(y, x)
RMin(x, y) == IF RLt(y, x) THEN y ELSE x
RMax(x, y) == IF RGt(y, x) THEN y ELSE x

RECURSIVE RSum(_)
RSum(s) == IF s = <<>> THEN Zero ELSE RAdd(Head(s), RSum(Tail(s)))

\* numpy.mean of a non-empty list
RMean(s) == RDiv(RSum(s), R(Len(s), 1))

\* numpy.var of a non-empty list: the mean of the squared deviations
RVar(s) ==
  LET m == RMean(s)
  IN  RMean([k \in 1..Len(s) |-> RMul(RSub(s[k], m), RSub(s[k], m))])

(***************************************************************************)
(* A call returns a value or raises; steps lists the scoring paths the     *)
(* call ran, in order.                                                     *)
(***************************************************************************)
Ret(v, steps) == [raised |-> FALSE, val |-> v, steps |-> steps]
Raise(msg, steps) == [raised |-> TRUE, err |-> msg, steps |-> steps]

(***************************************************************************)
(* RealImageModel.                                                         *)
(*                                                                         *)
(* An image environment env says what the collaborators do for one image:  *)
(*   hf   : the classifier-path step that raises, or "none"                *)
(*          ("load" Image.open, "infer" processor/model call,              *)
(*           "score" _calculate_fake_score_from_predictions)               *)
(*   cv   : "ok", "unreadable" (cv2.imread returns None) or "raises"       *)
(*          (a colour conversion or extractor raises)                      *)
(*   face : "ok" or "raises" (face_recognition raises)                     *)
(*   faces: the detected faces, each [edges, area]: the number of edge     *)
(*          pixels of the Canny map and the pixel count of the face region *)
(*   pic  : the numeric descriptors of the picture                         *)
(*          entropy, top, std   in tenths (top-10 probability vector)      *)
(*          ratio               in tenths (high-frequency / total energy)  *)
(*          noise_var           in hundreds (variance of the noise image)  *)
(*          sat_std, val_std    standard deviations of saturation, value   *)
(***************************************************************************)
HfSteps == {"load", "infer", "score"}

\* RealImageModel.__init__: both handles are loaded, or the load raised and
\* both are None
RealImageModel_init(loaded) ==
  IF loaded
  THEN [processor |-> "AutoImageProcessor", model |-> "resnet-50"]
  ELSE [processor |-> None, model |-> None]

\* a variant that returns the weighted sum as it is
CalculateFakeScoreFromPredictions_Unclamped(pic) ==
  RAdd(RAdd(RMul(RSub(One, RMin(RDiv(R(pic.entropy, 10), R(2, 1)), One)), R(4, 10)),
            RMul(R(pic.top, 10), R(4, 10))),
       RMul(RSub(One, R(pic.std, 10)), R(2, 10)))

\* _calculate_fake_score_from_predictions
CalculateFakeScoreFromPredictions(pic) ==
  LET entropy == R(pic.entropy, 10)
      entropy_score == RSub(One, RMin(RDiv(entropy, R(2, 1)), One))
      dominance_score == R(pic.top, 10)
      uniformity_score == RSub(One, R(pic.std, 10))
      fake_score == RAdd(RAdd(RMul(entropy_score, R(4, 10)),
                              RMul(dominance_score, R(4, 10))),
                         RMul(uniformity_score, R(2, 10)))
  IN  RMin(RMax(fake_score, R(1, 10)), R(9, 10))

\* a variant whose threshold an all-edge region exceeds
CheckFaceArtifacts_LowThreshold(face) ==
  LET edge_density == R(255 * face.edges, face.area)
  IN  RGt(edge_density, R(100, 1))

\* _check_face_artifacts: the Canny map holds 0 and 255 only
CheckFaceArtifacts(face) ==
  LET edge_density == R(255 * face.edges, face.area)
  IN  RGt(edge_density, R(1000, 1))

FaceCue(i, face) ==
  IF CheckFaceArtifacts(face)
  THEN "Face " \o ToString(i) \o ": Potential artifacts detected"
  ELSE "Face " \o ToString(i) \o ": No obvious artifacts"

\* a variant that says nothing when no face is found
ExtractVisualCues_Silent(env) ==
  IF env.face = "raises" THEN <<"Face analysis failed">>
  ELSE IF Len(env.faces) > 0
       THEN <<"Detected " \o ToString(Len(env.faces)) \o " face(s)">>
            \o [i \in 1..Len(env.faces) |-> FaceCue(i, env.faces[i])]
       ELSE <<>>

\* _extract_visual_cues: never raises, a failure becomes a cue
ExtractVisualCues(env) ==
  IF env.face = "raises" THEN <<"Face analysis failed">>
  ELSE IF Len(env.faces) > 0
       THEN <<"Detected " \o ToString(Len(env.faces)) \o " face(s)">>
            \o [i \in 1..Len(env.faces) |-> FaceCue(i, env.faces[i])]
       ELSE <<"No faces detected">>

\* _detect_compression_artifacts
DetectCompressionArtifacts(pic) == RMin(R(pic.ratio, 10), One)

\* _analyze_noise_patterns
AnalyzeNoisePatterns(pic) == RMin(RDiv(R(pic.noise_var * 100, 1), R(1000, 1)), One)

\* a variant that returns the spread in place of the consistency
AnalyzeColorConsistency_Inverted(pic) ==
  RSub(One, RMin(RDiv(One, RAdd(RAdd(One, R(pic.sat_std, 50)), R(pic.val_std, 50))), One))

\* _analyze_color_consistency
AnalyzeColorConsistency(pic) ==
  LET consistency == RDiv(One, RAdd(RAdd(One, R(pic.sat_std, 50)), R(pic.val_std, 50)))
  IN  RMin(consistency, One)

\* the except branch of _fallback_analysis
FallbackFailed ==
  [is_fake |-> FALSE, confidence |-> Half, fake_probability |-> Half,
   real_probability |-> Half, visual_cues |-> <<"Analysis failed">>,
   model_used |-> "Error Fallback"]

\* a variant whose thresholds are inclusive
FallbackCues_Inclusive(artifacts_score, noise_score, color_consistency) ==
  LET c1 == IF RLt(artifacts_score, R(6, 10))
            THEN <<>> ELSE <<"Compression artifacts detected">>
      c2 == IF RLt(noise_score, R(6, 10))
            THEN <<>> ELSE <<"Inconsistent noise patterns">>
      c3 == IF RGt(color_consistency, R(4, 10))
            THEN <<>> ELSE <<"Color inconsistencies detected">>
      visual_cues == c1 \o c2 \o c3
  IN  IF visual_cues = <<>> THEN <<"No obvious artifacts detected">> ELSE visual_cues

\* the visual cues of _fallback_analysis
FallbackCues(artifacts_score, noise_score, color_consistency) ==
  LET c1 == IF RGt(artifacts_score, R(6, 10))
            THEN <<"Compression artifacts detected">> ELSE <<>>
      c2 == IF RGt(noise_score, R(6, 10))
            THEN <<"Inconsistent noise patterns">> ELSE <<>>
      c3 == IF RLt(color_consistency, R(4, 10))
            THEN <<"Color inconsistencies detected">> ELSE <<>>
      visual_cues == c1 \o c2 \o c3
  IN  IF visual_cues = <<>> THEN <<"No obvious artifacts detected">> ELSE visual_cues

\* a variant whose confidence has no cap
FallbackAnalysis_Uncapped(env) ==
  IF env.cv # "ok" THEN Ret(FallbackFailed, <<"fallback">>)
  ELSE
    LET artifacts_score == DetectCompressionArtifacts(env.pic)
        noise_score == AnalyzeNoisePatterns(env.pic)
        color_consistency == AnalyzeColorConsistency(env.pic)
        fake_score == RDiv(RAdd(RAdd(artifacts_score, noise_score),
                                RSub(One, color_consistency)), R(3, 1))
    IN  Ret([is_fake |-> RGt(fake_score, Half),
             confidence |-> RAdd(RMul(fake_score, R(8, 10)), R(2, 10)),
             fake_probability |-> fake_score,
             real_probability |-> RSub(One, fake_score),
             visual_cues |-> FallbackCues(artifacts_score, noise_score, color_consistency),
             model_used |-> "Traditional CV Analysis"],
            <<"fallback">>)

\* _fallback_analysis: never raises
FallbackAnalysis(env) ==
  IF env.cv # "ok" THEN Ret(FallbackFailed, <<"fallback">>)
  ELSE
    LET artifacts_score == DetectCompressionArtifacts(env.pic)
        noise_score == AnalyzeNoisePatterns(env.pic)
        color_consistency == AnalyzeColorConsistency(env.pic)
        fake_score == RDiv(RAdd(RAdd(artifacts_score, noise_score),
                                RSub(One, color_consistency)), R(3, 1))
        confidence == RMin(RAdd(RMul(fake_score, R(8, 10)), R(2, 10)), R(95, 100))
    IN  Ret([is_fake |-> RGt(fake_score, Half),
             confidence |-> confidence,
             fake_probability |-> fake_score,
             real_probability |-> RSub(One, fake_score),
             visual_cues |-> FallbackCues(artifacts_score, noise_score, color_consistency),
             model_used |-> "Traditional CV Analysis"],
            <<"fallback">>)

\* a variant that runs the classifier path a second time before it degrades
HuggingfaceOnException_Retry(env) ==
  LET r == FallbackAnalysis(env)
  IN  [r EXCEPT !.steps = <<"primary", "primary">> \o @]

\* the except branch of _huggingface_analysis
HuggingfaceOnException(env) ==
  LET r == FallbackAnalysis(env)
  IN  [r EXCEPT !.steps = <<"primary">> \o @]

\* _huggingface_analysis
HuggingfaceAnalysis(env) ==
  IF env.hf \in HfSteps THEN HuggingfaceOnException(env)
  ELSE
    LET fake_score == CalculateFakeScoreFromPredictions(env.pic)
        visual_cues == ExtractVisualCues(env)
    IN  Ret([is_fake |-> RGt(fake_score, Half),
             confidence |-> RMin(RAdd(RMul(fake_score, R(7, 10)), R(3, 10)), R(9, 10)),
             fake_probability |-> fake_score,
             real_probability |-> RSub(One, fake_score),
             visual_cues |-> visual_cues,
             model_used |-> "Hugging Face ResNet-50 + CV Analysis"],
            <<"primary">>)

\* a variant that takes the classifier path whatever was loaded
ImageUsesClassifier_Always(im) == im.model # None \/ im.processor = None

\* the choice of path in RealImageModel.analyze_image
ImageUsesClassifier(im) == im.model # None /\ im.processor # None

\* RealImageModel.analyze_image
RealImageModel_analyze_image(im, env) ==
  LET r == IF ImageUsesClassifier(im)
           THEN HuggingfaceAnalysis(env)
           ELSE FallbackAnalysis(env)
  IN  IF r.raised
      THEN LET f == FallbackAnalysis(env)
           IN  [f EXCEPT !.steps = r.steps \o @]
      ELSE r

(***************************************************************************)
(* RealAudioModel.                                                         *)
(*                                                                         *)
(* An audio environment env:                                               *)
(*   fail : the step of analyze_audio that raises, or "none"               *)
(*   spectrogram : "ok" or "raises" (AudioProcessor.extract_spectrogram)   *)
(*   clip : mfcc_var (mean coefficient variance, in hundreds),             *)
(*          centroid_std, rolloff_std, disc (phase differences above pi/2),*)
(*          ndiff (number of phase differences), nsamples                  *)
(***************************************************************************)
AudioSteps == {"load", "mfcc", "centroid", "rolloff", "artifacts", "spectral", "phase"}

\* RealAudioModel.__init__: self.sample_rate
SampleRate == 16000

\* _detect_audio_artifacts
DetectAudioArtifacts(clip) == RMin(RDiv(R(clip.mfcc_var * 100, 1), R(1000, 1)), One)

\* _analyze_spectral_features
AnalyzeSpectralFeatures(clip) ==
  LET inconsistency == RDiv(R(clip.centroid_std + clip.rolloff_std, 1), R(1000, 1))
  IN  RMin(inconsistency, One)

\* _analyze_phase_consistency
AnalyzePhaseConsistency(clip) ==
  LET discontinuity_score == R(clip.disc, clip.ndiff)
  IN  RMin(RMul(discontinuity_score, R(10, 1)), One)

\* _fallback_audio_analysis
FallbackAudioAnalysis ==
  [is_fake |-> FALSE, confidence |-> Half, fake_probability |-> Half,
   real_probability |-> Half, visual_cues |-> <<"Audio analysis failed">>,
   model_used |-> "Fallback Analysis", duration |-> Zero, sample_rate |-> 0]

\* a variant whose thresholds are inclusive
AudioCues_Inclusive(artifacts_score, spectral_score, phase_score) ==
  LET c1 == IF RLt(artifacts_score, R(6, 10))
            THEN <<>> ELSE <<"Audio compression artifacts detected">>
      c2 == IF RLt(spectral_score, R(6, 10))
            THEN <<>> ELSE <<"Spectral inconsistencies found">>
      c3 == IF RLt(phase_score, R(6, 10))
            THEN <<>> ELSE <<"Phase inconsistencies detected">>
      cues == c1 \o c2 \o c3
  IN  IF cues = <<>> THEN <<"No obvious audio artifacts detected">> ELSE cues

\* the visual cues of analyze_audio
AudioCues(artifacts_score, spectral_score, phase_score) ==
  LET c1 == IF RGt(artifacts_score, R(6, 10))
            THEN <<"Audio compression artifacts detected">> ELSE <<>>
      c2 == IF RGt(spectral_score, R(6, 10))
            THEN <<"Spectral inconsistencies found">> ELSE <<>>
      c3 == IF RGt(phase_score, R(6, 10))
            THEN <<"Phase inconsistencies detected">> ELSE <<>>
      cues == c1 \o c2 \o c3
  IN  IF cues = <<>> THEN <<"No obvious audio artifacts detected">> ELSE cues

\* a variant that lets the failure out of analyze_audio
AudioOnException_Reraise(env) == Raise("audio step " \o env.fail \o " failed", <<"audio">>)

\* the except branch of RealAudioModel.analyze_audio
AudioOnException(env) == Ret(FallbackAudioAnalysis, <<"audio", "neutral">>)

\* RealAudioModel.analyze_audio
RealAudioModel_analyze_audio(env) ==
  IF env.fail \in AudioSteps THEN AudioOnException(env)
  ELSE
    LET artifacts_score == DetectAudioArtifacts(env.clip)
        spectral_score == AnalyzeSpectralFeatures(env.clip)
        phase_score == AnalyzePhaseConsistency(env.clip)
        fake_score == RDiv(RAdd(RAdd(artifacts_score, spectral_score), phase_score),
                           R(3, 1))
        confidence == RMin(RAdd(RMul(fake_score, R(8, 10)), R(2, 10)), R(95, 100))
    IN  Ret([is_fake |-> RGt(fake_score, Half),
             confidence |-> confidence,
             fake_probability |-> fake_score,
             real_probability |-> RSub(One, fake_score),
             visual_cues |-> AudioCues(artifacts_score, spectral_score, phase_score),
             model_used |-> "Audio Spectral Analysis",
             duration |-> R(env.clip.nsamples, SampleRate),
             sample_rate |-> SampleRate],
            <<"audio">>)

(***************************************************************************)
(* ModelManager: the image and audio operations.                           *)
(*                                                                         *)
(* A manager environment adds to the modality environment:                 *)
(*   exists  : os.path.exists of the path                                  *)
(*   metrics : "ok" or "raises" (ModelMetrics.record_prediction)           *)
(***************************************************************************)
\* ModelManager.__init__: the image model and the video model's image model
\* are two RealImageModel objects, each loaded on its own
ModelManager_init(imageLoaded, videoLoaded) ==
  [image_model |-> RealImageModel_init(imageLoaded),
   video_model |-> [image_model |-> RealImageModel_init(videoLoaded)]]

\* a variant whose error result is the neutral one, the message dropped
ErrorResult_Neutral(file_type, e) ==
  [file_type |-> file_type, is_fake |-> FALSE, confidence |-> Half,
   model_used |-> "Fallback Analysis", metadata |-> [visual_cues |-> <<"Analysis failed">>]]

\* the AnalysisResult the except branch of ModelManager.analyze_* builds
ErrorResult(file_type, e) ==
  [file_type |-> file_type, is_fake |-> FALSE, confidence |-> Zero,
   model_used |-> "Error", metadata |-> [error |-> e]]

\* a variant without the except branch: the exception leaves the operation
ManagerOnException_Reraise(file_type, e, steps) == Raise(e, steps)

\* the except branch of ModelManager.analyze_image, analyze_video, analyze_audio
ManagerOnException(file_type, e, steps) ==
  Ret(ErrorResult(file_type, e), steps \o <<"error">>)

\* ImageProcessor.extract_faces: a failure is an empty list
ExtractFaces(env) == IF env.face = "raises" THEN <<>> ELSE env.faces

\* the AnalysisResult ModelManager.analyze_image builds from the model's result
ImageAnalysisResult(result, faces) ==
  [file_type |-> "image",
   is_fake |-> result.is_fake,
   confidence |-> result.confidence,
   model_used |-> result.model_used,
   metadata |-> [fake_probability |-> result.fake_probability,
                 real_probability |-> result.real_probability,
                 visual_cues |-> result.visual_cues,
                 faces_detected |-> Len(faces)]]

\* a variant that treats the model's own failure outcome as an exception
ImageReturned_Strict(r, env) ==
  IF r.raised THEN ManagerOnException("image", r.err, r.steps)
  ELSE IF r.val.model_used = "Error Fallback"
  THEN ManagerOnException("image", "Analysis failed", r.steps)
  ELSE IF env.metrics = "raises"
  THEN ManagerOnException("image", "record_prediction failed", r.steps)
  ELSE Ret(ImageAnalysisResult(r.val, ExtractFaces(env)), r.steps)

\* ModelManager.analyze_image once self.image_model.analyze_image returned r
ImageReturned(r, env) ==
  IF r.raised THEN ManagerOnException("image", r.err, r.steps)
  ELSE IF env.metrics = "raises"
  THEN ManagerOnException("image", "record_prediction failed", r.steps)
  ELSE Ret(ImageAnalysisResult(r.val, ExtractFaces(env)), r.steps)

\* ModelManager.analyze_image
ModelManager_analyze_image(mgr, env) ==
  IF ~env.exists THEN ManagerOnException("image", "Image file not found", <<>>)
  ELSE ImageReturned(RealImageModel_analyze_image(mgr.image_model, env), env)

\* AudioProcessor.extract_spectrogram: a failure is an empty dict
ExtractSpectrogram(env) == IF env.spectrogram = "raises" THEN "{}" ELSE "features"

\* the AnalysisResult ModelManager.analyze_audio builds from the model's result
AudioAnalysisResult(result, spectrogram_features) ==
  [file_type |-> "audio",
   is_fake |-> result.is_fake,
   confidence |-> result.confidence,
   model_used |-> result.model_used,
   metadata |-> [fake_probability |-> result.fake_probability,
                 real_probability |-> result.real_probability,
                 visual_cues |-> result.visual_cues,
                 duration |-> result.duration,
                 sample_rate |-> result.sample_rate,
                 spectrogram_features |-> spectrogram_features]]

\* ModelManager.analyze_audio once self.audio_model.analyze_audio returned r
AudioReturned(r, env) ==
  IF r.raised THEN ManagerOnException("audio", r.err, r.steps)
  ELSE IF env.metrics = "raises"
  THEN ManagerOnException("audio", "record_prediction failed", r.steps)
  ELSE Ret(AudioAnalysisResult(r.val, ExtractSpectrogram(env)), r.steps)

\* ModelManager.analyze_audio
ModelManager_analyze_audio(mgr, env) ==
  IF ~env.exists THEN ManagerOnException("audio", "Audio file not found", <<>>)
  ELSE AudioReturned(RealAudioModel_analyze_audio(env), env)

(***************************************************************************)
(* RealVideoModel and VideoProcessor.                                      *)
(*                                                                         *)
(* A video source src:                                                     *)
(*   exists, opens : os.path.exists, cap.isOpened()                        *)
(*   fps100  : CAP_PROP_FPS in hundredths                                  *)
(*   nframes : the number of frames cap.read() can return                  *)
(*   bad     : the index of the frame at which cap.read() raises, or -1    *)
(*   pattern : what the frames show (KindAt)                               *)
(* Both extractors write frame number c to /tmp/video_frames/frame_c.jpg,  *)
(* so a frame file is named by c alone. files maps each such path to what  *)
(* it holds: NoFile or [owner, kind], the call that wrote it and the kind  *)
(* of picture written.                                                     *)
(***************************************************************************)
\* the limit of both extraction loops
FrameLimit == 30

\* the frame_rate default of _extract_frames and extract_frames
FrameRate == 1

Paths == 0..(MaxSrcFrames - 1)

NoFile == [owner |-> None, kind |-> None]

FrameKinds == {"calm", "mid", "busy", "odd"}

OneFace(edges) == [edges |-> edges, area |-> 4]

\* the environment in which a frame of the given kind is scored
FrameEnv(kind) ==
  CASE kind = "calm" ->
         [hf |-> "none", cv |-> "ok", face |-> "ok", faces |-> <<>>,
          pic |-> [entropy |-> 20, top |-> 0, std |-> 0,
                   ratio |-> 0, noise_var |-> 0, sat_std |-> 0, val_std |-> 0]]
    [] kind = "mid" ->
         [hf |-> "none", cv |-> "ok", face |-> "ok", faces |-> <<OneFace(1)>>,
          pic |-> [entropy |-> 10, top |-> 5, std |-> 0,
                   ratio |-> 6, noise_var |-> 6, sat_std |-> 25, val_std |-> 50]]
    [] kind = "busy" ->
         [hf |-> "score", cv |-> "ok", face |-> "ok", faces |-> <<OneFace(4)>>,
          pic |-> [entropy |-> 0, top |-> 10, std |-> 3,
                   ratio |-> 9, noise_var |-> 9, sat_std |-> 25, val_std |-> 50]]
    [] kind = "odd" ->
         [hf |-> "infer", cv |-> "raises", face |-> "raises", faces |-> <<>>,
          pic |-> [entropy |-> 0, top |-> 10, std |-> 3,
                   ratio |-> 0, noise_var |-> 0, sat_std |-> 0, val_std |-> 0]]
    [] kind = "rich" ->
         [hf |-> "score", cv |-> "ok", face |-> "ok", faces |-> <<>>,
          pic |-> [entropy |-> 0, top |-> 10, std |-> 3,
                   ratio |-> 9, noise_var |-> 7, sat_std |-> 100, val_std |-> 100]]

\* a path that holds no file: Image.open raises, cv2.imread returns None,
\* face_recognition.load_image_file raises
MissingFileEnv ==
  [hf |-> "load", cv |-> "unreadable", face |-> "raises", faces |-> <<>>,
   pic |-> [entropy |-> 0, top |-> 0, std |-> 0,
            ratio |-> 0, noise_var |-> 0, sat_std |-> 0, val_std |-> 0]]

FileEnv(content) == IF content = NoFile THEN MissingFileEnv ELSE FrameEnv(content.kind)

\* the picture that frame number c of a source shows
KindAt(pattern, c) ==
  CASE pattern = "calm" -> "calm"
    [] pattern = "busy" -> "busy"
    [] pattern = "mixed" -> IF c % 3 = 2 THEN "calm" ELSE "mid"
    [] pattern = "odd" -> IF c = 0 THEN "odd" ELSE "busy"

\* a variant that rounds the quotient to the nearest integer
FrameInterval_Rounded(fps100, frame_rate) ==
  (2 * fps100 + 100 * frame_rate) \div (200 * frame_rate)

\* frame_interval = int(fps / frame_rate)
FrameInterval(fps100, frame_rate) == fps100 \div (100 * frame_rate)

\* a variant that gives the neutral 0.5 to a list too short for a variance
AnalyzeTemporalConsistency_ShortHalf(fake_probs) ==
  IF Len(fake_probs) < 2 THEN Half
  ELSE RMin(RDiv(One, RAdd(One, RMul(RVar(fake_probs), R(10, 1)))), One)

\* _analyze_temporal_consistency
AnalyzeTemporalConsistency(fake_probs) ==
  IF Len(fake_probs) < 2 THEN One
  ELSE
    LET variance == RVar(fake_probs)
        consistency == RDiv(One, RAdd(One, RMul(variance, R(10, 1))))
    IN  RMin(consistency, One)

\* a variant whose neutral outcome has no confidence at all
FallbackVideoAnalysis_NoConfidence ==
  [is_fake |-> FALSE, confidence |-> Zero, fake_probability |-> Half,
   real_probability |-> Half, visual_cues |-> <<"Video analysis failed">>,
   model_used |-> "Fallback Analysis", frames_analyzed |-> 0,
   temporal_consistency |-> Half]

\* _fallback_video_analysis
FallbackVideoAnalysis ==
  [is_fake |-> FALSE, confidence |-> Half, fake_probability |-> Half,
   real_probability |-> Half, visual_cues |-> <<"Video analysis failed">>,
   model_used |-> "Fallback Analysis", frames_analyzed |-> 0,
   temporal_consistency |-> Half]

\* every cue a frame can carry, in a fixed reference order
CueUniverse ==
  <<"Compression artifacts detected", "Inconsistent noise patterns",
    "Color inconsistencies detected", "No obvious artifacts detected",
    "Analysis failed", "No faces detected", "Face analysis failed">>
  \o [i \in 1..MaxFaces |-> "Detected " \o ToString(i) \o " face(s)"]
  \o [i \in 1..MaxFaces |-> "Face " \o ToString(i) \o ": No obvious artifacts"]
  \o [i \in 1..MaxFaces |-> "Face " \o ToString(i) \o ": Potential artifacts detected"]

\* the string-hash seeds of the model: the iteration order of a Python set
\* of strings depends on the seed of the process
HashSeeds == {0, 1}

Reverse(s) == [i \in 1..Len(s) |-> s[Len(s) + 1 - i]]

\* a variant that lists the cues without making a set of them
ListOfSet_Keep(cues, seed) == IF seed = 0 THEN cues ELSE Reverse(cues)

\* list(set(cues)): each member once, in the order the seed gives
ListOfSet(cues, seed) ==
  LET members == {cues[i] : i \in 1..Len(cues)}
      ordered == SelectSeq(CueUniverse, LAMBDA c : c \in members)
  IN  IF seed = 0 THEN ordered ELSE Reverse(ordered)

RECURSIVE Concat(_)
Concat(ss) == IF ss = <<>> THEN <<>> ELSE Head(ss) \o Concat(Tail(ss))

\* a variant that takes the verdict by a vote of the per-frame verdicts
VideoVerdict_Vote(frame_results, avg_fake_prob) ==
  2 * Cardinality({i \in 1..Len(frame_results) : frame_results[i].is_fake})
    > Len(frame_results)

\* the verdict of a video: avg_fake_prob > 0.5
VideoVerdict(frame_results, avg_fake_prob) == RGt(avg_fake_prob, Half)

\* a variant that scales the confidence by the temporal score alone
FinalConfidence_Scaled(avg_confidence, temporal_score) ==
  RMul(avg_confidence, temporal_score)

\* final_confidence = avg_confidence * (0.7 + 0.3 * temporal_score)
FinalConfidence(avg_confidence, temporal_score) ==
  RMul(avg_confidence, RAdd(R(7, 10), RMul(R(3, 10), temporal_score)))

\* RealVideoModel.analyze_video, from "Aggregate results" to the return
AggregateFrames(frame_results, nframes, seed) ==
  LET fake_probs == [i \in 1..Len(frame_results) |-> frame_results[i].fake_probability]
      confidences == [i \in 1..Len(frame_results) |-> frame_results[i].confidence]
      temporal_score == AnalyzeTemporalConsistency(fake_probs)
      avg_fake_prob == RMean(fake_probs)
      avg_confidence == RMean(confidences)
      final_confidence == FinalConfidence(avg_confidence, temporal_score)
      all_cues == Concat([i \in 1..Len(frame_results) |-> frame_results[i].visual_cues])
      listed == ListOfSet(all_cues, seed)
      unique_cues == SubSeq(listed, 1, Min(5, Len(listed)))
  IN  [is_fake |-> VideoVerdict(frame_results, avg_fake_prob),
       confidence |-> final_confidence,
       fake_probability |-> avg_fake_prob,
       real_probability |-> RSub(One, avg_fake_prob),
       visual_cues |-> unique_cues,
       model_used |-> "Temporal CV Analysis",
       frames_analyzed |-> nframes,
       temporal_consistency |-> temporal_score]

\* a variant that scores every frame on the heuristic path
ScoreFrame_Heuristic(im, env) == FallbackAnalysis(env)

\* the per-frame scoring of RealVideoModel.analyze_video
ScoreFrame(im, env) ==
  IF im.model # None THEN HuggingfaceAnalysis(env) ELSE FallbackAnalysis(env)

\* a variant that samples every frame when the stride is 0
ExtractIteration_EveryFrame(src, frame_count) ==
  LET frame_interval == FrameInterval(src.fps100, FrameRate)
  IN  IF src.bad = frame_count /\ frame_count < src.nframes THEN "raise"
      ELSE IF frame_count >= src.nframes THEN "break"
      ELSE IF frame_interval = 0 THEN "write"
      ELSE IF frame_count % frame_interval = 0 THEN "write"
      ELSE "skip"

\* one iteration of the while loop of _extract_frames and extract_frames,
\* with frame_count frames read so far: what the iteration does
\*   "raise"  : cap.read() raises, or frame_count % 0 is evaluated
\*   "break"  : cap.read() returns no frame
\*   "write"  : the frame is written to its path and appended
\*   "skip"   : the frame is read and not sampled
ExtractIteration(src, frame_count) ==
  LET frame_interval == FrameInterval(src.fps100, FrameRate)
  IN  IF src.bad = frame_count /\ frame_count < src.nframes THEN "raise"
      ELSE IF frame_count >= src.nframes THEN "break"
      ELSE IF frame_interval = 0 THEN "raise"
      ELSE IF frame_count % frame_interval = 0 THEN "write"
      ELSE "skip"

\* a variant whose limit test lets one more frame through
LimitReached_OffByOne(frames) == Len(frames) > FrameLimit

\* the test that ends both loops after an iteration
LimitReached(frames) == Len(frames) >= FrameLimit

\* face_recognition.face_distance of two encodings; the encoding of a face
\* is the kind of picture it was found in
FaceDistance(a, b) == IF a = b THEN R(3, 10) ELSE R(7, 10)

\* ImageProcessor.extract_faces on a frame file: one encoding per face
FrameFaces(content) ==
  LET faces == ExtractFaces(FileEnv(content))
  IN  [i \in 1..Len(faces) |-> content.kind]

\* the body of the loop over i of analyze_temporal_consistency, before the
\* os.remove: the scores and artifacts of frames i and i + 1
ComparePair(current_faces, next_faces, i) ==
  LET pairs == [p \in 1..(Len(current_faces) * Len(next_faces)) |->
                  FaceDistance(current_faces[((p - 1) \div Len(next_faces)) + 1],
                               next_faces[((p - 1) % Len(next_faces)) + 1])]
      same == SelectSeq(pairs, LAMBDA d : RLt(d, R(6, 10)))
      other == SelectSeq(pairs, LAMBDA d : ~RLt(d, R(6, 10)))
  IN  [consistency_scores |-> [q \in 1..Len(same) |-> RSub(One, same[q])],
       artifacts |-> [q \in 1..Len(other) |->
                        "Face inconsistency at frame " \o ToString(i)]]

\* the returns of analyze_temporal_consistency
TemporalShort == [consistency_score |-> One, artifacts |-> <<>>]
TemporalFailed == [consistency_score |-> Half, artifacts |-> <<"Analysis failed">>]
TemporalResult(consistency_scores, artifacts) ==
  [consistency_score |-> IF consistency_scores = <<>> THEN One
                         ELSE RMean(consistency_scores),
   artifacts |-> artifacts]

\* ModelManager.analyze_video after the two analyses
ModelManager_finish_video(result, temporal_analysis, metrics, steps) ==
  IF metrics = "raises"
  THEN ManagerOnException("video", "record_prediction failed", steps)
  ELSE Ret([file_type |-> "video",
            is_fake |-> result.is_fake,
            confidence |-> result.confidence,
            model_used |-> result.model_used,
            metadata |-> [fake_probability |-> result.fake_probability,
                          real_probability |-> result.real_probability,
                          visual_cues |-> result.visual_cues,
                          frames_analyzed |-> result.frames_analyzed,
                          temporal_consistency |-> result.temporal_consistency,
                          temporal_analysis |-> temporal_analysis]],
           steps)

(***************************************************************************)
(* The inputs of the model.                                                *)
(***************************************************************************)
FaceChoices == {OneFace(1), OneFace(4)}

FaceLists == UNION {[1..n -> FaceChoices] : n \in 0..MaxFaces}

\* A call reads the descriptors of one path only, so the pictures vary the
\* descriptors of one path and keep those of the other path fixed.
PictureGrid ==
  [entropy : {0, 10, 23}, top : {1, 8, 10}, std : {0, 3},
   ratio : {0, 5, 6, 9}, noise_var : {0, 6, 12}, sat_std : {0, 25, 50}, val_std : {0, 50}]

Pictures ==
  {pic \in PictureGrid :
     \/ pic.entropy = 0 /\ pic.top = 1 /\ pic.std = 0
     \/ pic.ratio = 0 /\ pic.noise_var = 0 /\ pic.sat_std = 0 /\ pic.val_std = 0}

ImageEnvs ==
  [exists : {TRUE}, hf : HfSteps \cup {"none"}, cv : {"ok", "unreadable", "raises"},
   face : {"ok", "raises"}, faces : FaceLists, pic : Pictures,
   metrics : {"ok", "raises"}]
  \cup
  [exists : {FALSE}, hf : {"load"}, cv : {"unreadable"}, face : {"raises"},
   faces : {<<>>}, pic : {MissingFileEnv.pic}, metrics : {"ok"}]

Clips ==
  [mfcc_var : {0, 6, 7, 12}, centroid_std : {0, 300, 700}, rolloff_std : {0, 300},
   disc : {0, 1, 2, 3}, ndiff : {25}, nsamples : {8000, 16000}]

AudioEnvs ==
  [exists : {TRUE}, fail : AudioSteps \cup {"none"}, spectrogram : {"ok", "raises"},
   clip : Clips, metrics : {"ok", "raises"}]
  \cup
  [exists : {FALSE}, fail : {"load"}, spectrogram : {"raises"},
   clip : [mfcc_var : {0}, centroid_std : {0}, rolloff_std : {0},
           disc : {0}, ndiff : {25}, nsamples : {8000}],
   metrics : {"ok"}]

Source(exists, opens, fps100, nframes, bad, pattern) ==
  [exists |-> exists, opens |-> opens, fps100 |-> fps100, nframes |-> nframes,
   bad |-> bad, pattern |-> pattern]

Sources ==
  {Source(FALSE, FALSE, 0, 0, -1, "calm"),
   Source(TRUE, FALSE, 0, 0, -1, "calm"),
   Source(TRUE, TRUE, 100, 0, -1, "calm"),
   Source(TRUE, TRUE, 100, 1, -1, "odd"),
   Source(TRUE, TRUE, 100, MaxSrcFrames, -1, "mixed"),
   Source(TRUE, TRUE, 50, 2, -1, "calm"),
   Source(TRUE, TRUE, 0, 2, -1, "calm"),
   Source(TRUE, TRUE, 100, 2, 0, "busy"),
   Source(TRUE, TRUE, 100, 2, 1, "busy")}

(***************************************************************************)
(* The state.                                                              *)
(*   model_manager : the ModelManager of the process                       *)
(*   pc[w]   : where worker w is in its call                               *)
(*   call[w] : the call w is in: its kind, what its environment did, and   *)
(*             (inner) what the modality model returned to the manager     *)
(*   vid[w]  : the locals of w's video analysis                            *)
(*   out[w]  : what w's call returned                                      *)
(*   files   : the frame files of /tmp/video_frames                        *)
(*                                                                         *)
(* Each worker makes one call. A behaviour is one image analysis, or one   *)
(* audio analysis, or the video analyses of the workers running            *)
(* concurrently: the image and audio operations have no suspension point   *)
(* and touch nothing shared, so nothing interleaves with them.             *)
(***************************************************************************)
NoCall == [kind |-> "none"]
NoOut == [raised |-> FALSE, val |-> None, steps |-> <<>>]

IdleVid ==
  [src |-> Source(FALSE, FALSE, 0, 0, -1, "calm"),
   im |-> RealImageModel_init(FALSE),
   frames |-> <<>>, frame_count |-> 0, k |-> 0,
   frame_results |-> <<>>, steps |-> <<>>, result |-> None,
   face_data |-> <<>>, consistency_scores |-> <<>>, artifacts |-> <<>>,
   temporal_analysis |-> None]

\* the upload endpoint's state while only the models are exercised: nothing was uploaded
NoServer ==
  [uuids |-> {}, file_uploads |-> {}, analysis_results |-> {},
   FILE_UPLOADS |-> 0, background_tasks |-> {}]

Init ==
  /\ model_manager \in {ModelManager_init(i, v) : i, v \in BOOLEAN}
  /\ pc = [w \in Workers |-> "idle"]
  /\ call = [w \in Workers |-> NoCall]
  /\ vid = [w \in Workers |-> IdleVid]
  /\ out = [w \in Workers |-> NoOut]
  /\ files = [p \in Paths |-> NoFile]
  /\ server = NoServer

OthersIdle(w) == \A v \in Workers \ {w} : pc[v] = "idle"

\* One call of ModelManager.analyze_image. The call has no suspension point and touches nothing shared: it is one step,
\* taken while no other call is in progress.
AnalyzeImage(w) ==
  /\ pc[w] = "idle"
  /\ OthersIdle(w)
  /\ \E env \in ImageEnvs :
           /\ out' = [out EXCEPT ![w] = ModelManager_analyze_image(model_manager, env)]
           /\ call' = [call EXCEPT ![w] =
                         [kind |-> "image", exists |-> env.exists,
                          im |-> model_manager.image_model, hf |-> env.hf, cv |-> env.cv,
                          face |-> env.face, nfaces |-> Len(env.faces),
                          pic |-> env.pic, metrics |-> env.metrics,
                          inner |-> IF env.exists
                                    THEN RealImageModel_analyze_image(
                                           model_manager.image_model, env)
                                    ELSE NoOut]]
  /\ pc' = [pc EXCEPT ![w] = "done"]
  /\ UNCHANGED <<server, model_manager, vid, files>>

\* One call of ModelManager.analyze_audio, likewise one step.
AnalyzeAudio(w) ==
  /\ pc[w] = "idle"
  /\ OthersIdle(w)
  /\ \E env \in AudioEnvs :
           /\ out' = [out EXCEPT ![w] = ModelManager_analyze_audio(model_manager, env)]
           /\ call' = [call EXCEPT ![w] =
                         [kind |-> "audio", exists |-> env.exists, fail |-> env.fail,
                          clip |-> env.clip, metrics |-> env.metrics,
                          inner |-> IF env.exists
                                    THEN RealAudioModel_analyze_audio(env)
                                    ELSE NoOut]]
  /\ pc' = [pc EXCEPT ![w] = "done"]
  /\ UNCHANGED <<server, model_manager, vid, files>>

(***************************************************************************)
(* ModelManager.analyze_video, step by step: a step is one iteration of a  *)
(* loop that writes, reads or deletes a frame file.                        *)
(***************************************************************************)
OthersNotAtomic(w) == \A v \in Workers \ {w} : call[v].kind \in {"none", "video"}

\* RealVideoModel.analyze_video returned result: VideoProcessor comes next
ToProcessor(v, result, step) ==
  [v EXCEPT !.result = result, !.steps = @ \o step,
            !.frames = <<>>, !.frame_count = 0, !.k = 0]

\* analyze_temporal_consistency returned: the manager finishes
ToFinish(v, temporal_analysis) ==
  [v EXCEPT !.temporal_analysis = temporal_analysis,
            !.frames = <<>>, !.frame_count = 0, !.k = 0,
            !.face_data = <<>>, !.consistency_scores = <<>>, !.artifacts = <<>>]

\* the except branch of RealVideoModel.analyze_video, and its "if not frames"
VideoNeutral(v) == ToProcessor(v, FallbackVideoAnalysis, <<<<"neutral">>>>)

\* the call starts: the existence test, then cap = cv2.VideoCapture(path)
StartVideo(w) ==
  /\ pc[w] = "idle"
  /\ OthersNotAtomic(w)
  /\ \E src \in Sources :
       LET v == [IdleVid EXCEPT !.src = src, !.im = model_manager.video_model.image_model]
       IN  /\ call' = [call EXCEPT ![w] =
                         [kind |-> "video", exists |-> src.exists, metrics |-> "ok"]]
           /\ IF ~src.exists
              THEN /\ out' = [out EXCEPT ![w] =
                                ManagerOnException("video", "Video file not found", <<>>)]
                   /\ pc' = [pc EXCEPT ![w] = "done"]
                   /\ vid' = [vid EXCEPT ![w] = v]
              ELSE IF ~src.opens
              THEN /\ vid' = [vid EXCEPT ![w] = VideoNeutral(v)]
                   /\ pc' = [pc EXCEPT ![w] = "vp_open"]
                   /\ out' = out
              ELSE /\ vid' = [vid EXCEPT ![w] = v]
                   /\ pc' = [pc EXCEPT ![w] = "rv_extract"]
                   /\ out' = out
  /\ UNCHANGED <<server, model_manager, files>>

\* what a loop iteration of an extractor leaves: the frames list, the count
\* and the files
Written(w, v) ==
  [files EXCEPT ![v.frame_count] =
     [owner |-> w, kind |-> KindAt(v.src.pattern, v.frame_count)]]

\* one iteration of the loop of RealVideoModel._extract_frames
RV_Extract(w) ==
  /\ pc[w] = "rv_extract"
  /\ LET v == vid[w]
         what == ExtractIteration(v.src, v.frame_count)
         frames == IF what = "write" THEN Append(v.frames, v.frame_count) ELSE v.frames
         after == [v EXCEPT !.frames = frames, !.frame_count = @ + 1]
     IN  /\ files' = IF what = "write" THEN Written(w, v) ELSE files
         /\ IF what = "raise" \/ (what = "break" /\ v.frames = <<>>)
            THEN /\ vid' = [vid EXCEPT ![w] = VideoNeutral(v)]
                 /\ pc' = [pc EXCEPT ![w] = "vp_open"]
            ELSE IF what = "break" \/ LimitReached(frames)
            THEN /\ vid' = [vid EXCEPT ![w] =
                              [(IF what = "break" THEN v ELSE after) EXCEPT !.k = 1]]
                 /\ pc' = [pc EXCEPT ![w] = "rv_score"]
            ELSE /\ vid' = [vid EXCEPT ![w] = after]
                 /\ pc' = pc
  /\ UNCHANGED <<server, model_manager, call, out>>

\* the scoring of frame k in the loop of RealVideoModel.analyze_video
RV_Score(w) ==
  /\ pc[w] = "rv_score"
  /\ LET v == vid[w]
         r == ScoreFrame(v.im, FileEnv(files[v.frames[v.k]]))
     IN  vid' = [vid EXCEPT ![w] =
                   [v EXCEPT !.frame_results = Append(@, r.val),
                             !.steps = Append(@, r.steps)]]
  /\ pc' = [pc EXCEPT ![w] = "rv_remove"]
  /\ UNCHANGED <<server, model_manager, call, out, files>>

\* os.remove(frame_path) of frame k; after the last frame, the aggregation
RV_Remove(w) ==
  /\ pc[w] = "rv_remove"
  /\ LET v == vid[w]
         path == v.frames[v.k]
     IN  IF files[path] = NoFile
         THEN /\ vid' = [vid EXCEPT ![w] = VideoNeutral(v)]
              /\ pc' = [pc EXCEPT ![w] = "vp_open"]
              /\ files' = files
         ELSE /\ files' = [files EXCEPT ![path] = NoFile]
              /\ IF v.k < Len(v.frames)
                 THEN /\ vid' = [vid EXCEPT ![w] = [v EXCEPT !.k = @ + 1]]
                      /\ pc' = [pc EXCEPT ![w] = "rv_score"]
                 ELSE /\ \E seed \in HashSeeds :
                           vid' = [vid EXCEPT ![w] =
                                     ToProcessor(v, AggregateFrames(v.frame_results,
                                                                    Len(v.frames), seed),
                                                 <<>>)]
                      /\ pc' = [pc EXCEPT ![w] = "vp_open"]
  /\ UNCHANGED <<server, model_manager, call, out>>

\* VideoProcessor.extract_frames up to its loop: the open test and
\* duration = total_frames / fps
VP_Open(w) ==
  /\ pc[w] = "vp_open"
  /\ LET v == vid[w]
     IN  IF ~v.src.opens \/ v.src.fps100 = 0
         THEN /\ vid' = [vid EXCEPT ![w] = ToFinish(v, TemporalShort)]
              /\ pc' = [pc EXCEPT ![w] = "finish"]
         ELSE /\ vid' = vid
              /\ pc' = [pc EXCEPT ![w] = "vp_extract"]
  /\ UNCHANGED <<server, model_manager, call, out, files>>

\* one iteration of the loop of VideoProcessor.extract_frames; when the
\* extractor returns, the length test of analyze_temporal_consistency
VP_Extract(w) ==
  /\ pc[w] = "vp_extract"
  /\ LET v == vid[w]
         what == ExtractIteration(v.src, v.frame_count)
         frames == IF what = "write" THEN Append(v.frames, v.frame_count) ELSE v.frames
         returned == IF what = "raise" THEN <<>> ELSE frames
         after == [v EXCEPT !.frames = frames, !.frame_count = @ + 1]
     IN  /\ files' = IF what = "write" THEN Written(w, v) ELSE files
         /\ IF what \in {"raise", "break"} \/ LimitReached(frames)
            THEN IF Len(returned) < 2
                 THEN /\ vid' = [vid EXCEPT ![w] = ToFinish(v, TemporalShort)]
                      /\ pc' = [pc EXCEPT ![w] = "finish"]
                 ELSE /\ vid' = [vid EXCEPT ![w] =
                                   [(IF what = "break" THEN v ELSE after) EXCEPT !.k = 1]]
                      /\ pc' = [pc EXCEPT ![w] = "vp_faces"]
            ELSE /\ vid' = [vid EXCEPT ![w] = after]
                 /\ pc' = pc
  /\ UNCHANGED <<server, model_manager, call, out>>

\* extract_faces of frame k in the first loop of analyze_temporal_consistency
VP_Faces(w) ==
  /\ pc[w] = "vp_faces"
  /\ LET v == vid[w]
         faces == FrameFaces(files[v.frames[v.k]])
     IN  IF v.k < Len(v.frames)
         THEN /\ vid' = [vid EXCEPT ![w] =
                           [v EXCEPT !.face_data = Append(@, faces), !.k = @ + 1]]
              /\ pc' = pc
         ELSE /\ vid' = [vid EXCEPT ![w] =
                           [v EXCEPT !.face_data = Append(@, faces), !.k = 1]]
              /\ pc' = [pc EXCEPT ![w] = "vp_compare"]
  /\ UNCHANGED <<server, model_manager, call, out, files>>

\* iteration i = k - 1 of the second loop of analyze_temporal_consistency:
\* the comparison of frames k and k + 1, then os.remove(frames[i])
VP_Compare(w) ==
  /\ pc[w] = "vp_compare"
  /\ LET v == vid[w]
         path == v.frames[v.k]
         current_faces == v.face_data[v.k]
         next_faces == v.face_data[v.k + 1]
         pair == ComparePair(current_faces, next_faces, v.k - 1)
         compared == current_faces # <<>> /\ next_faces # <<>>
     IN  \E distance_raises \in {FALSE, compared} :
           IF distance_raises \/ files[path] = NoFile
           THEN /\ vid' = [vid EXCEPT ![w] = ToFinish(v, TemporalFailed)]
                /\ pc' = [pc EXCEPT ![w] = "finish"]
                /\ files' = files
           ELSE /\ files' = [files EXCEPT ![path] = NoFile]
                /\ vid' = [vid EXCEPT ![w] =
                             [v EXCEPT !.consistency_scores = @ \o pair.consistency_scores,
                                       !.artifacts = @ \o pair.artifacts,
                                       !.k = @ + 1]]
                /\ pc' = [pc EXCEPT ![w] =
                            IF v.k + 1 < Len(v.frames) THEN "vp_compare" ELSE "vp_last"]
  /\ UNCHANGED <<server, model_manager, call, out>>

\* os.remove(frames[-1]) and the return of analyze_temporal_consistency
VP_Last(w) ==
  /\ pc[w] = "vp_last"
  /\ LET v == vid[w]
         path == v.frames[Len(v.frames)]
     IN  IF files[path] = NoFile
         THEN /\ vid' = [vid EXCEPT ![w] = ToFinish(v, TemporalFailed)]
              /\ files' = files
         ELSE /\ vid' = [vid EXCEPT ![w] =
                           ToFinish(v, TemporalResult(v.consistency_scores, v.artifacts))]
              /\ files' = [files EXCEPT ![path] = NoFile]
  /\ pc' = [pc EXCEPT ![w] = "finish"]
  /\ UNCHANGED <<server, model_manager, call, out>>

\* the rest of ModelManager.analyze_video: metrics and the AnalysisResult
Finish(w) ==
  /\ pc[w] = "finish"
  /\ \E metrics \in {"ok", "raises"} :
       /\ out' = [out EXCEPT ![w] =
                    ModelManager_finish_video(vid[w].result, vid[w].temporal_analysis,
                                              metrics, Concat(vid[w].steps))]
       /\ call' = [call EXCEPT ![w] = [@ EXCEPT !.metrics = metrics]]
  /\ pc' = [pc EXCEPT ![w] = "done"]
  /\ UNCHANGED <<server, model_manager, vid, files>>

Next ==
  \E w \in Workers :
    \/ AnalyzeImage(w)
    \/ AnalyzeAudio(w)
    \/ StartVideo(w)
    \/ RV_Extract(w)
    \/ RV_Score(w)
    \/ RV_Remove(w)
    \/ VP_Open(w)
    \/ VP_Extract(w)
    \/ VP_Faces(w)
    \/ VP_Compare(w)
    \/ VP_Last(w)
    \/ Finish(w)

Spec == Init /\ [][Next]_vars

(***************************************************************************)
(* Long videos. The analyses of Spec run on sources of a few frames; the   *)
(* limit of the extraction loops needs sources of more than FrameLimit     *)
(* sampled frames. LongSpec is the two extractors, _extract_frames and     *)
(* VideoProcessor.extract_frames, each called on such a source, one call   *)
(* at a time, with the frame rates 1, 1.8, 2 and 29.97 per second.         *)
(***************************************************************************)
LongPaths == 0..(MaxLongFrames - 1)

LongSources ==
  {Source(TRUE, TRUE, fps100, nframes, -1, "calm") :
     fps100 \in {100, 180, 200, 2997},
     nframes \in {1, FrameLimit - 1, FrameLimit, FrameLimit + 1, MaxLongFrames}}

LongInit ==
  /\ model_manager \in {ModelManager_init(i, v) : i, v \in BOOLEAN}
  /\ pc = [w \in Workers |-> "idle"]
  /\ call = [w \in Workers |-> NoCall]
  /\ vid = [w \in Workers |-> IdleVid]
  /\ out = [w \in Workers |-> NoOut]
  /\ files = [p \in LongPaths |-> NoFile]
  /\ server = NoServer

\* an extractor is called on a long source that exists and opens:
\* _extract_frames enters its loop, extract_frames starts at its open test
StartLongVideo(w) ==
  /\ pc[w] = "idle"
  /\ OthersIdle(w)
  /\ \E src \in LongSources :
       /\ call' = [call EXCEPT ![w] =
                     [kind |-> "video", exists |-> src.exists, metrics |-> "ok"]]
       /\ vid' = [vid EXCEPT ![w] =
                    [IdleVid EXCEPT !.src = src,
                                    !.im = model_manager.video_model.image_model]]
  /\ \E extractor \in {"rv_extract", "vp_open"} :
       pc' = [pc EXCEPT ![w] = extractor]
  /\ UNCHANGED <<server, model_manager, out, files>>

LongNext ==
  \E w \in Workers :
    \/ StartLongVideo(w)
    \/ RV_Extract(w)
    \/ VP_Open(w)
    \/ VP_Extract(w)

LongSpec == LongInit /\ [][LongNext]_vars

(***************************************************************************)
(* The temporal score alone. TemporalSpec is _analyze_temporal_consistency *)
(* called by each worker on a list of fake probabilities of its own.       *)
(***************************************************************************)
Probabilities == {Zero, R(1, 5), One}

ProbabilityLists == UNION {[1..n -> Probabilities] : n \in 0..MaxSrcFrames}

CallTemporalConsistency(w) ==
  /\ pc[w] = "idle"
  /\ \E fake_probs \in ProbabilityLists :
       /\ call' = [call EXCEPT ![w] = [kind |-> "temporal", fake_probs |-> fake_probs]]
       /\ out' = [out EXCEPT ![w] = Ret(AnalyzeTemporalConsistency(fake_probs), <<>>)]
  /\ pc' = [pc EXCEPT ![w] = "done"]
  /\ UNCHANGED <<server, model_manager, vid, files>>

TemporalNext == \E w \in Workers : CallTemporalConsistency(w)

TemporalInit == Init /\ model_manager = ModelManager_init(TRUE, TRUE)

TemporalSpec == TemporalInit /\ [][TemporalNext]_vars

(***************************************************************************)
(* The aggregation alone. AggregateSpec is the part of analyze_video after *)
(* its scoring loop, run by each worker on the same per-frame results: two *)
(* analyses of one video, each in a process with a hash seed of its own.   *)
(***************************************************************************)
ScoredKinds == FrameKinds \cup {"rich"}

\* what the scoring of one frame can give
FrameResults ==
  {ScoreFrame(RealImageModel_init(loaded), FrameEnv(kind)).val :
     loaded \in BOOLEAN, kind \in ScoredKinds}

FrameResultLists == UNION {[1..n -> FrameResults] : n \in 1..MaxSrcFrames}

AggregateInit ==
  /\ model_manager \in {ModelManager_init(TRUE, TRUE)}
  /\ pc = [w \in Workers |-> "idle"]
  /\ call = [w \in Workers |-> NoCall]
  /\ \E frame_results \in FrameResultLists :
       vid = [w \in Workers |-> [IdleVid EXCEPT !.frame_results = frame_results]]
  /\ out = [w \in Workers |-> NoOut]
  /\ files = [p \in Paths |-> NoFile]
  /\ server = NoServer

Aggregate(w) ==
  /\ pc[w] = "idle"
  /\ \E seed \in HashSeeds :
       /\ call' = [call EXCEPT ![w] = [kind |-> "aggregate", seed |-> seed]]
       /\ out' = [out EXCEPT ![w] =
                    Ret(AggregateFrames(vid[w].frame_results,
                                        Len(vid[w].frame_results), seed), <<>>)]
  /\ pc' = [pc EXCEPT ![w] = "done"]
  /\ UNCHANGED <<server, model_manager, vid, files>>

AggregateNext == \E w \in Workers : Aggregate(w)

AggregateSpec == AggregateInit /\ [][AggregateNext]_vars

(***************************************************************************)
(* The heuristic scores alone. ScoreSpec is RealImageModel.analyze_image   *)
(* without the classifier and RealAudioModel.analyze_audio, each worker    *)
(* scoring a picture or a clip of its own, on descriptors that reach from  *)
(* the lowest fake score to the cap of the confidence.                     *)
(***************************************************************************)
ScorePictures ==
  {[entropy |-> 0, top |-> 1, std |-> 0, ratio |-> ratio, noise_var |-> noise_var,
    sat_std |-> spread[1], val_std |-> spread[2]] :
     ratio \in {0, 6, 10}, noise_var \in {0, 6, 12},
     spread \in {<<0, 0>>, <<25, 50>>, <<200, 250>>}}

ScoreClips == {clip \in Clips : clip.nsamples = SampleRate}

ScoreInit == Init /\ model_manager = ModelManager_init(FALSE, FALSE)

ScoreImage(w) ==
  /\ pc[w] = "idle"
  /\ \E pic \in ScorePictures :
       call' = [call EXCEPT ![w] =
                  [kind |-> "image", exists |-> TRUE, pic |-> pic,
                   inner |-> RealImageModel_analyze_image(
                               model_manager.image_model,
                               [hf |-> "none", cv |-> "ok", face |-> "ok",
                                faces |-> <<>>, pic |-> pic])]]
  /\ pc' = [pc EXCEPT ![w] = "done"]
  /\ UNCHANGED <<server, model_manager, vid, out, files>>

ScoreAudio(w) ==
  /\ pc[w] = "idle"
  /\ \E clip \in ScoreClips :
       call' = [call EXCEPT ![w] =
                  [kind |-> "audio", exists |-> TRUE, clip |-> clip,
                   inner |-> RealAudioModel_analyze_audio(
                               [fail |-> "none", clip |-> clip])]]
  /\ pc' = [pc EXCEPT ![w] = "done"]
  /\ UNCHANGED <<server, model_manager, vid, out, files>>

ScoreNext == \E w \in Workers : ScoreImage(w) \/ ScoreAudio(w)

ScoreSpec == ScoreInit /\ [][ScoreNext]_vars

(***************************************************************************)
(* The face cues of the classifier path on face regions of every edge      *)
(* density: a region has area pixels, of which edges are 255 in the Canny  *)
(* map and the others 0.                                                   *)
(***************************************************************************)
FaceRegions ==
  {[edges |-> 0, area |-> 1], [edges |-> 1, area |-> 1], [edges |-> 0, area |-> 4],
   [edges |-> 1, area |-> 4], [edges |-> 4, area |-> 4]}

FaceRegionLists == UNION {[1..n -> FaceRegions] : n \in 0..(MaxFaces + 1)}

FacePictures == {pic \in ScorePictures : pic.ratio = 0 /\ pic.noise_var = 0}

FaceInit == Init /\ model_manager = ModelManager_init(TRUE, TRUE)

\* RealImageModel.analyze_image on an image the classifier scores, whose
\* detected faces are the given regions
CueFaces(w) ==
  /\ pc[w] = "idle"
  /\ \E faces \in FaceRegionLists, pic \in FacePictures :
       call' = [call EXCEPT ![w] =
                  [kind |-> "faces", exists |-> TRUE, faces |-> faces,
                   inner |-> RealImageModel_analyze_image(
                               model_manager.image_model,
                               [hf |-> "none", cv |-> "ok", face |-> "ok",
                                faces |-> faces, pic |-> pic])]]
  /\ pc' = [pc EXCEPT ![w] = "done"]
  /\ UNCHANGED <<server, model_manager, vid, out, files>>

FaceNext == \E w \in Workers : CueFaces(w)

FaceSpec == FaceInit /\ [][FaceNext]_vars

(***************************************************************************)
(* The upload endpoint of api/v1/endpoints/upload.py, the background task  *)
(* it schedules, and the status endpoint of api/v1/endpoints/analyze.py.   *)
(* A file name is a sequence of characters; files maps each directory that *)
(* exists under UPLOAD_DIR to the set of file names stored in it; server   *)
(* holds the two database collections, the upload counter, the ids issued  *)
(* and the background tasks added. A file_id is a number.                  *)
(***************************************************************************)
MAX_FILE_SIZE == 100 * 1024 * 1024

ALLOWED_IMAGE_EXTENSIONS ==
  {<<".", "j", "p", "g">>, <<".", "j", "p", "e", "g">>, <<".", "p", "n", "g">>,
   <<".", "b", "m", "p">>, <<".", "t", "i", "f", "f">>}

ALLOWED_VIDEO_EXTENSIONS ==
  {<<".", "m", "p", "4">>, <<".", "a", "v", "i">>, <<".", "m", "o", "v">>,
   <<".", "m", "k", "v">>, <<".", "w", "e", "b", "m">>}

ALLOWED_AUDIO_EXTENSIONS ==
  {<<".", "w", "a", "v">>, <<".", "m", "p", "3">>, <<".", "f", "l", "a", "c">>,
   <<".", "m", "4", "a">>, <<".", "a", "a", "c">>}

\* the directories config.py creates under UPLOAD_DIR when it is imported
ConfigDirs == {"images", "videos", "audio", "temp"}

UpperCase ==
  <<"A", "B", "C", "D", "E", "F", "G", "H", "I", "J", "K", "L", "M",
    "N", "O", "P", "Q", "R", "S", "T", "U", "V", "W", "X", "Y", "Z">>

LowerCase ==
  <<"a", "b", "c", "d", "e", "f", "g", "h", "i", "j", "k", "l", "m",
    "n", "o", "p", "q", "r", "s", "t", "u", "v", "w", "x", "y", "z">>

\* str.lower()
lower(s) ==
  [i \in 1..Len(s) |->
     IF \E k \in 1..26 : UpperCase[k] = s[i]
     THEN LowerCase[CHOOSE k \in 1..26 : UpperCase[k] = s[i]]
     ELSE s[i]]

\* Path(name).suffix: from the last dot on, unless that dot opens or ends the name
suffix(name) ==
  LET dots == {i \in 1..Len(name) : name[i] = "."} IN
    IF dots = {} THEN <<>>
    ELSE LET i == CHOOSE d \in dots : \A e \in dots : e <= d IN
           IF i = 1 \/ i = Len(name) THEN <<>> ELSE SubSeq(name, i, Len(name))

\* the HTTPException of the given status
HTTPException(status_code, detail) ==
  [status_code |-> status_code, detail |-> detail,
   file_id |-> 0, file_type |-> None, status |-> None]

get_file_type_Lenient(filename) ==
  LET ext == lower(suffix(filename)) IN
    IF ext \in ALLOWED_VIDEO_EXTENSIONS THEN [raised |-> FALSE, val |-> "video"]
    ELSE IF ext \in ALLOWED_AUDIO_EXTENSIONS THEN [raised |-> FALSE, val |-> "audio"]
    ELSE [raised |-> FALSE, val |-> "image"]

get_file_type(filename) ==
  LET ext == lower(suffix(filename)) IN
    IF ext \in ALLOWED_IMAGE_EXTENSIONS THEN [raised |-> FALSE, val |-> "image"]
    ELSE IF ext \in ALLOWED_VIDEO_EXTENSIONS THEN [raised |-> FALSE, val |-> "video"]
    ELSE IF ext \in ALLOWED_AUDIO_EXTENSIONS THEN [raised |-> FALSE, val |-> "audio"]
    ELSE [raised |-> TRUE,
          val |-> HTTPException(400, [text |-> "Unsupported file type", ext |-> ext])]

\* os.path.join(UPLOAD_DIR, file_type, filename), relative to UPLOAD_DIR
get_upload_path(file_type, filename) == [dir |-> file_type, name |-> filename]

\* save_uploaded_file: opening the path fails when its directory is missing;
\* a write that fails leaves the file it opened. Returns the new files and
\* whether the save succeeded.
save_uploaded_file(fs, file_path, io) ==
  IF file_path.dir \notin DOMAIN fs
  THEN [files |-> fs, val |-> FALSE]
  ELSE [files |-> [fs EXCEPT ![file_path.dir] = @ \cup {file_path.name}],
        val |-> io = "ok"]

uuid4_Constant(uuids) == 1

\* uuid.uuid4(): an id that was not issued before
uuid4(uuids) == Cardinality(uuids) + 1

\* db_manager.save_file_upload and save_analysis_result: insert_one, with
\* every exception turned into a False return
insert_one(collection, document, db_ok) ==
  IF db_ok THEN collection \cup {document} ELSE collection

\* db_manager.update_analysis_status: update_one without upsert on the
\* analysis_results collection, every exception swallowed
update_analysis_status(analysis_results, file_id, status, error_message, db_ok) ==
  IF ~db_ok THEN analysis_results
  ELSE {IF r.file_id = file_id
        THEN [r EXCEPT !.status = status,
                       !.error_message = IF error_message # None
                                         THEN error_message ELSE @]
        ELSE r : r \in analysis_results}

\* db_manager.get_file_upload and get_analysis_result: find_one by file_id,
\* the set of what it returns (empty for None)
find_one(collection, file_id) ==
  IF \E r \in collection : r.file_id = file_id
  THEN {CHOOSE r \in collection : r.file_id = file_id}
  ELSE {}

\* GET /{file_id}/status
get_analysis_status(srv, file_id) ==
  IF find_one(srv.file_uploads, file_id) = {}
  THEN [status_code |-> 404, analysis_status |-> None, error_message |-> None]
  ELSE IF find_one(srv.analysis_results, file_id) # {}
  THEN LET result == CHOOSE r \in find_one(srv.analysis_results, file_id) : TRUE IN
         [status_code |-> 200, analysis_status |-> result.status,
          error_message |-> result.error_message]
  ELSE [status_code |-> 200, analysis_status |-> "pending", error_message |-> None]

\* POST /: the response, the files and the server state it leaves
upload_file(fs, srv, req) ==
  IF req.size # 0 /\ req.size > MAX_FILE_SIZE
  THEN [response |-> HTTPException(413, [text |-> "File size exceeds maximum limit"]),
        files |-> fs, server |-> srv]
  ELSE IF get_file_type(req.filename).raised
  THEN [response |-> get_file_type(req.filename).val, files |-> fs, server |-> srv]
  ELSE
    LET file_type == get_file_type(req.filename).val
        file_id == uuid4(srv.uuids)
        issued == [srv EXCEPT !.uuids = @ \cup {file_id}]
        file_path == get_upload_path(file_type, <<file_id, suffix(req.filename)>>)
        saved == save_uploaded_file(fs, file_path, req.io)
        upload_record == [file_id |-> file_id, file_name |-> req.filename,
                          file_type |-> file_type, file_size |-> req.size,
                          file_path |-> file_path, status |-> "uploaded"]
    IN
      IF ~saved.val
      THEN [response |-> HTTPException(500, [text |-> "Failed to save uploaded file"]),
            files |-> saved.files, server |-> issued]
      ELSE IF ~req.db_ok
      THEN [response |-> HTTPException(500, [text |-> "Failed to save upload record"]),
            files |-> saved.files, server |-> issued]
      ELSE [response |-> [status_code |-> 200, detail |-> None, file_id |-> file_id,
                          file_type |-> file_type, status |-> "uploaded"],
            files |-> saved.files,
            server |-> [issued EXCEPT
                          !.file_uploads = insert_one(@, upload_record, TRUE),
                          !.FILE_UPLOADS = @ + 1,
                          !.background_tasks =
                             @ \cup {[file_id |-> file_id, file_path |-> file_path,
                                      file_type |-> file_type]}]]

Filenames ==
  {<<"t", ".", "t", "x", "t">>, <<"a", ".", "j", "p", "g">>,
   <<"a", ".", "J", "P", "G">>, <<"c", ".", "m", "p", "4">>,
   <<"d", ".", "w", "a", "v">>, <<".", "p", "n", "g">>, <<"x">>}

\* UploadFile.size: unknown (0), within the limit, at the limit, above it
FileSizes == {0, 1, MAX_FILE_SIZE, MAX_FILE_SIZE + 1}

Uploads == [filename : Filenames, size : FileSizes, io : {"ok", "write"}, db_ok : BOOLEAN]

\* config.py has run: its directories exist, next to whatever UPLOAD_DIR
\* already held (makedirs is called with exist_ok)
UploadInit ==
  /\ model_manager = ModelManager_init(TRUE, TRUE)
  /\ pc = [w \in Workers |-> "idle"]
  /\ call = [w \in Workers |-> NoCall]
  /\ vid = [w \in Workers |-> IdleVid]
  /\ out = [w \in Workers |-> NoOut]
  /\ \E found \in SUBSET {"image", "video"} :
       files = [d \in ConfigDirs \cup found |-> {}]
  /\ server = NoServer

\* One request to POST /. Its background task, if one was added, runs after
\* the response.
UploadFile(w) ==
  /\ pc[w] = "idle"
  /\ \E req \in Uploads :
       /\ call' = [call EXCEPT ![w] = [kind |-> "upload", req |-> req,
                                       result |-> None, error |-> None]]
       /\ out' = [out EXCEPT ![w] = upload_file(files, server, req).response]
       /\ files' = upload_file(files, server, req).files
       /\ server' = upload_file(files, server, req).server
       /\ pc' = [pc EXCEPT ![w] =
                   IF upload_file(files, server, req).response.status_code = 200
                   THEN "scheduled" ELSE "done"]
  /\ UNCHANGED <<model_manager, vid>>

\* the task of worker w's upload
Task(w) == CHOOSE t \in server.background_tasks : t.file_id = out[w].file_id

\* process_file_background, up to its first await: the status update
ProcessStart(w) ==
  /\ pc[w] = "scheduled"
  /\ \E db_ok \in BOOLEAN :
       server' = [server EXCEPT !.analysis_results =
                    update_analysis_status(@, Task(w).file_id, "processing", None, db_ok)]
  /\ pc' = [pc EXCEPT ![w] = "processing"]
  /\ UNCHANGED <<model_manager, call, vid, out, files>>

\* ModelManager(), os.path.getsize and the analysis by file type: either one
\* of the first two raises, or the ModelManager operation returns its
\* AnalysisResult, whose status is the default "completed"
ProcessAnalyze(w) ==
  /\ pc[w] = "processing"
  /\ \/ /\ call' = [call EXCEPT ![w].error = "OSError"]
        /\ pc' = [pc EXCEPT ![w] = "except"]
     \/ /\ Task(w).file_type \in {"image", "video", "audio"}
        /\ call' = [call EXCEPT ![w].result =
                      [file_id |-> Task(w).file_id, file_type |-> Task(w).file_type,
                       status |-> "completed", error_message |-> None]]
        /\ pc' = [pc EXCEPT ![w] = "save"]
  /\ UNCHANGED <<model_manager, vid, out, files, server>>

\* db_manager.save_analysis_result(result)
ProcessSave(w) ==
  /\ pc[w] = "save"
  /\ \E db_ok \in BOOLEAN :
       server' = [server EXCEPT !.analysis_results =
                    insert_one(@, call[w].result, db_ok)]
  /\ pc' = [pc EXCEPT ![w] = "done"]
  /\ UNCHANGED <<model_manager, call, vid, out, files>>

\* the except branch: update_analysis_status(file_id, "failed", str(e))
ProcessExcept(w) ==
  /\ pc[w] = "except"
  /\ \E db_ok \in BOOLEAN :
       server' = [server EXCEPT !.analysis_results =
                    update_analysis_status(@, Task(w).file_id, "failed",
                                           call[w].error, db_ok)]
  /\ pc' = [pc EXCEPT ![w] = "done"]
  /\ UNCHANGED <<model_manager, call, vid, out, files>>

UploadNext ==
  \E w \in Workers :
    \/ UploadFile(w)
    \/ ProcessStart(w)
    \/ ProcessAnalyze(w)
    \/ ProcessSave(w)
    \/ ProcessExcept(w)

UploadSpec == UploadInit /\ [][UploadNext]_vars

(***************************************************************************)
(* Properties.                                                             *)
(***************************************************************************)
Done(w) == pc[w] = "done"

InCall(w) == pc[w] \notin {"idle", "done"}

\* the next step of w's call is defined: each step above is enabled by its
\* label alone, and needs the frame it indexes to be there
Ready(w) ==
  LET v == vid[w]
  IN  CASE pc[w] \in {"rv_extract", "vp_open", "vp_extract", "finish"} -> TRUE
        [] pc[w] \in {"rv_score", "rv_remove"} -> v.k \in 1..Len(v.frames)
        [] pc[w] = "vp_faces" ->
             v.k \in 1..Len(v.frames) /\ Len(v.face_data) = v.k - 1
        [] pc[w] = "vp_compare" ->
             v.k \in 1..(Len(v.frames) - 1) /\ Len(v.face_data) = Len(v.frames)
        [] pc[w] = "vp_last" -> v.frames # <<>>
        [] OTHER -> FALSE

Count(s, x) == Cardinality({i \in 1..Len(s) : s[i] = x})

InUnit(x) == RLe(Zero, x) /\ RLe(x, One)

AnalysisResultFields == {"file_type", "is_fake", "confidence", "model_used", "metadata"}

IsAnalysisResult(r, file_type) ==
  /\ DOMAIN r = AnalysisResultFields
  /\ r.file_type = file_type
  /\ r.is_fake \in BOOLEAN
  /\ DOMAIN r.confidence = {"n", "d"}

HasProbabilities(r) == {"fake_probability", "real_probability"} \subseteq DOMAIN r.metadata

\* the failures that reach the except branch of the manager's operation
ReachesManager(w) == ~call[w].exists \/ call[w].metrics = "raises"

\* C1: every call of ModelManager.analyze_image, analyze_video and
\* analyze_audio, whatever the path holds, whatever was loaded and whichever
\* collaborator raises, ends by returning an AnalysisResult of its file type
\* and raises nothing; a call in progress always has a next step to take.
C1_AlwaysReturns ==
  \A w \in Workers :
    /\ Done(w) => ~out[w].raised /\ IsAnalysisResult(out[w].val, call[w].kind)
    /\ InCall(w) => Ready(w)

\* C1 happens: a video analysis whose metric recording raised has returned
\* the error result.
C1_Witness ==
  \E w \in Workers :
    /\ Done(w) /\ call[w].kind = "video" /\ call[w].exists
    /\ call[w].metrics = "raises"
    /\ ~out[w].raised /\ out[w].val.model_used = "Error"

\* C2: every returned outcome, the error outcome included, carries a fake
\* and a real probability that sum to 1, both in [0, 1], and a confidence in
\* [0, 1].
C2_ProbabilitiesInEveryOutcome ==
  \A w \in Workers :
    Done(w) =>
      LET r == out[w].val
      IN  /\ HasProbabilities(r)
          /\ RAdd(r.metadata.fake_probability, r.metadata.real_probability) = One
          /\ InUnit(r.metadata.fake_probability)
          /\ InUnit(r.metadata.real_probability)
          /\ InUnit(r.confidence)

\* C3: in every returned outcome is_fake is true exactly when the outcome
\* carries a fake probability above 0.5; a fake probability of exactly 0.5
\* gives is_fake false; the verdict of a video that scored its frames is
\* taken on the mean of the per-frame fake probabilities.
C3_VerdictIsThreshold ==
  \A w \in Workers :
    Done(w) =>
      LET r == out[w].val
      IN  /\ r.is_fake = (HasProbabilities(r) /\ RGt(r.metadata.fake_probability, Half))
          /\ r.model_used = "Temporal CV Analysis" =>
               LET fr == vid[w].frame_results
                   fake_probs == [i \in 1..Len(fr) |-> fr[i].fake_probability]
               IN  /\ r.metadata.fake_probability = RMean(fake_probs)
                   /\ r.is_fake = RGt(RMean(fake_probs), Half)

\* C3 happens: a video most of whose frames were scored fake has a mean
\* fake probability of at most 0.5 and is returned as not fake.
C3_Witness ==
  \E w \in Workers :
    /\ Done(w) /\ call[w].kind = "video"
    /\ out[w].val.model_used = "Temporal CV Analysis"
    /\ LET fr == vid[w].frame_results
       IN  2 * Cardinality({i \in 1..Len(fr) : fr[i].is_fake}) > Len(fr)
    /\ ~out[w].val.is_fake

FallbackTags == {"Traditional CV Analysis", "Error Fallback"}

InternalFailure(w) ==
  \/ ~call[w].exists
  \/ call[w].kind = "image" /\ call[w].inner.val.model_used = "Error Fallback"
  \/ call[w].kind = "audio" /\ call[w].fail \in AudioSteps
  \/ call[w].kind = "video" /\ vid[w].result = FallbackVideoAnalysis

ZeroFrames(w) ==
  LET src == vid[w].src
  IN  ~src.opens \/ src.nframes = 0 \/ src.bad = 0

IsVideoNeutral(r) ==
  /\ r.confidence = Half
  /\ r.metadata.fake_probability = Half
  /\ r.metadata.real_probability = Half
  /\ r.is_fake = FALSE
  /\ r.metadata.visual_cues = <<"Video analysis failed">>

C7_AudioFailureIsNeutral ==
  \A w \in Workers :
    (Done(w) /\ call[w].kind = "audio" /\ call[w].exists /\ call[w].fail \in AudioSteps) =>
      LET r == call[w].inner
      IN  /\ ~r.raised
          /\ r.val.fake_probability = Half
          /\ r.val.real_probability = Half
          /\ r.val.is_fake = FALSE
          /\ r.val.confidence = Half
          /\ r.val.visual_cues = <<"Audio analysis failed">>

\* C7 happens: the phase score raised and the neutral outcome was returned.
C7_Witness ==
  \E w \in Workers :
    /\ Done(w) /\ call[w].kind = "audio" /\ call[w].exists /\ call[w].fail = "phase"
    /\ call[w].inner.val = FallbackAudioAnalysis
    /\ call[w].metrics = "ok"
    /\ out[w].val.metadata.visual_cues = <<"Audio analysis failed">>

\* how far w's call is from its return: the stages left, then the
\* iterations left in the loop of the stage
StagesLeft(p) ==
  CASE p = "idle" -> 9
    [] p = "rv_extract" -> 8
    [] p \in {"rv_score", "rv_remove"} -> 7
    [] p = "vp_open" -> 6
    [] p = "vp_extract" -> 5
    [] p = "vp_faces" -> 4
    [] p = "vp_compare" -> 3
    [] p = "vp_last" -> 2
    [] p = "finish" -> 1
    [] p = "done" -> 0

IterationsLeft(w) ==
  LET v == vid[w]
  IN  CASE pc[w] \in {"rv_extract", "vp_extract"} -> v.src.nframes + 1 - v.frame_count
        [] pc[w] = "rv_score" -> 2 * (Len(v.frames) - v.k) + 1
        [] pc[w] = "rv_remove" -> 2 * (Len(v.frames) - v.k)
        [] pc[w] \in {"vp_faces", "vp_compare"} -> Len(v.frames) - v.k
        [] OTHER -> 0

Rank(w) == StagesLeft(pc[w]) * (2 * MaxSrcFrames + 2) + IterationsLeft(w)

\* the scoring paths of one scoring of an image
OneScoring(steps) ==
  /\ Count(steps, "primary") <= 1
  /\ Count(steps, "fallback") <= 1
  /\ Len(steps) <= 2

\* C8: nothing is retried. One scoring of an image, in an image analysis or
\* of a frame, runs the classifier path at most once and the heuristic path
\* at most once; a call builds the neutral outcome at most once and the error
\* outcome at most once; and every step of a call brings it nearer to its
\* return, so no call loops.
C8_NoRetry ==
  /\ [](\A w \in Workers :
          /\ (Done(w) /\ call[w].kind = "image" /\ call[w].exists) =>
               OneScoring(call[w].inner.steps)
          /\ \A i \in 1..Len(vid[w].steps) :
               vid[w].steps[i] = <<"neutral">> \/ OneScoring(vid[w].steps[i])
          /\ Count(vid[w].steps, <<"neutral">>) <= 1
          /\ Count(out[w].steps, "neutral") <= 1
          /\ Count(out[w].steps, "error") <= 1
          /\ Rank(w) >= 0)
  /\ [][\A w \in Workers :
          (pc'[w] # pc[w] \/ vid'[w].frame_count # vid[w].frame_count
             \/ vid'[w].k # vid[w].k)
            => Rank(w)' < Rank(w)]_vars

\* C8 happens: the classifier path of an image analysis failed once and the
\* heuristic path ran once after it.
C8_Witness ==
  \E w \in Workers :
    /\ Done(w) /\ call[w].kind = "image" /\ call[w].exists
    /\ call[w].inner.steps = <<"primary", "fallback">>

\* the frame file that w's next step reads or deletes
NextPath(w) ==
  IF pc[w] = "vp_last" THEN vid[w].frames[Len(vid[w].frames)]
  ELSE vid[w].frames[vid[w].k]

\* C9: two video analyses that run concurrently share nothing: the frame
\* file a call is about to score, compare or delete is the one this call
\* wrote, never one the other call wrote or deleted.
C9_FramesArePrivate ==
  \A w \in Workers :
    pc[w] \in {"rv_score", "rv_remove", "vp_faces", "vp_compare", "vp_last"} =>
      files[NextPath(w)].owner = w

\* C10: when ModelManager.analyze_video has returned, every frame file the
\* call wrote has been deleted, for every number of sampled frames.
C10_FramesDeleted ==
  \A w \in Workers :
    (Done(w) /\ call[w].kind = "video") =>
      \A p \in Paths : files[p].owner # w

\* w's call is in one of the two extraction loops, about to read a frame
Extracting(w) == pc[w] \in {"rv_extract", "vp_extract"}

\* w's call holds the frames an extractor returned
Extracted(w) ==
  pc[w] \in {"rv_score", "rv_remove", "vp_faces", "vp_compare", "vp_last"}

\* C11: whatever the length and the frame rate of the source, an extractor
\* holds at most 30 frames, reads the source only while it holds fewer than
\* 30, and has read nothing after the frame that became the 30th.
C11_AtMostThirtyFrames ==
  \A w \in Workers :
    call[w].kind = "video" =>
      /\ Len(vid[w].frames) <= 30
      /\ Extracting(w) => Len(vid[w].frames) < 30
      /\ Len(vid[w].frames) = 30 => vid[w].frame_count = vid[w].frames[30] + 1

\* C11 happens: an extractor returned 30 frames of a source that has frames
\* left after the last one read.
C11_Witness ==
  \E w \in Workers :
    /\ Extracted(w)
    /\ Len(vid[w].frames) = 30
    /\ vid[w].frame_count < vid[w].src.nframes

\* the frame numbers below n that are multiples of stride, the first 30
SampledUpTo(stride, n) ==
  [i \in 1..Min(30, (n + stride - 1) \div stride) |-> (i - 1) * stride]

\* with the stride given for each source, the frames an extractor holds are
\* the multiples of the stride among the frames read, up to the cap
KeepsMultiplesOf(stride(_)) ==
  \A w \in Workers :
    (call[w].kind = "video" /\ (Extracting(w) \/ Extracted(w))) =>
      vid[w].frames = SampledUpTo(stride(vid[w].src), vid[w].frame_count)

TruncatedQuotient(src) == src.fps100 \div 100

RoundedQuotient(src) == (src.fps100 + 50) \div 100

\* C12 as stated: the frames kept are the decoded frames whose zero-based
\* index is a multiple of round(sourceFPS / targetRate), up to the cap of 30.
C12_StrideIsRounded == KeepsMultiplesOf(RoundedQuotient)

\* C12, amended: the frames kept are the decoded frames whose zero-based
\* index is a multiple of the quotient sourceFPS / targetRate truncated to
\* an integer (29 for a 29.97 fps source at 1 frame per second), up to the
\* cap of 30.
C12_StrideIsTruncated == KeepsMultiplesOf(TruncatedQuotient)

\* C12 happens: a 29.97 fps source of more than 30 frames gave the frames 0
\* and 29.
C12_Witness ==
  \E w \in Workers :
    /\ Extracted(w) /\ vid[w].src.fps100 = 2997
    /\ vid[w].frames = <<0, 29>>

\* the image models of the process
ImageModels == {model_manager.image_model, model_manager.video_model.image_model}

\* C13: the result analyze_video uses for a frame is the result analyze_image
\* returns for that frame file with the same image model. The video loop
\* tests the model handle alone and analyze_image tests the model and the
\* processor; the two tests agree, since after construction the two handles
\* of an image model are both loaded or both None.
C13_FrameScoredAsImage ==
  /\ [](\A im \in ImageModels : (im.model = None) <=> (im.processor = None))
  /\ [][\A w \in Workers :
          (pc[w] = "rv_score" /\ pc'[w] = "rv_remove") =>
            /\ (vid[w].im.model # None) <=> ImageUsesClassifier(vid[w].im)
            /\ vid'[w].frame_results =
                 Append(vid[w].frame_results,
                        RealImageModel_analyze_image(
                          vid[w].im, FileEnv(files[vid[w].frames[vid[w].k]])).val)]_vars

\* C13 happens: with the classifier loaded, a call has scored one frame on
\* the heuristic path after the classifier path failed on it, and the next
\* frame on the classifier path.
C13_Witness ==
  \E w \in Workers :
    /\ pc[w] = "rv_remove" /\ vid[w].im.model # None /\ vid[w].k = 2
    /\ vid[w].frame_results[1].model_used = "Traditional CV Analysis"
    /\ vid[w].steps[1] = <<"primary", "fallback">>
    /\ vid[w].frame_results[2].model_used = "Hugging Face ResNet-50 + CV Analysis"

AllEqual(s) == \A i, j \in 1..Len(s) : s[i] = s[j]

\* what _analyze_temporal_consistency gave w for the list it was called on
TemporalCall(w) == Done(w) /\ call[w].kind = "temporal"

\* C14: _analyze_temporal_consistency returns exactly 1.0 for a list of fewer
\* than 2 probabilities. For 2 or more it returns 1 / (1 + 10 * variance),
\* which is above 0 and at most 1, is 1.0 exactly when all the probabilities
\* are equal, and is strictly smaller for a list of larger variance.
C14_TemporalConsistency ==
  \A w \in Workers :
    TemporalCall(w) =>
      LET f == call[w].fake_probs
          t == out[w].val
      IN  /\ Len(f) < 2 => t = One
          /\ Len(f) >= 2 =>
               /\ t = RDiv(One, RAdd(One, RMul(R(10, 1), RVar(f))))
               /\ RGt(t, Zero) /\ RLe(t, One)
               /\ (t = One) <=> AllEqual(f)
               /\ \A u \in Workers :
                    (TemporalCall(u) /\ Len(call[u].fake_probs) >= 2
                       /\ RLt(RVar(f), RVar(call[u].fake_probs)))
                      => RGt(t, out[u].val)

\* C14 happens: one call on a single probability, and one on three
\* probabilities that differ, which scored below 1.
C14_Witness ==
  \E w, u \in Workers :
    /\ TemporalCall(w) /\ Len(call[w].fake_probs) = 1 /\ out[w].val = One
    /\ TemporalCall(u) /\ Len(call[u].fake_probs) = 3
    /\ ~AllEqual(call[u].fake_probs) /\ RLt(out[u].val, One)

\* what the aggregation gave w for the per-frame results it was run on
AggregateCall(w) == Done(w) /\ call[w].kind = "aggregate"

FakeProbabilities(frame_results) ==
  [i \in 1..Len(frame_results) |-> frame_results[i].fake_probability]

Confidences(frame_results) ==
  [i \in 1..Len(frame_results) |-> frame_results[i].confidence]

\* C15: for a video of n >= 1 scored frames the confidence is
\* mean(c_i) * (0.7 + 0.3 * temporalConsistency). It lies between
\* 0.7 * mean(c_i) and mean(c_i), never exceeds the largest per-frame
\* confidence, and equals mean(c_i) when n = 1 or all the per-frame fake
\* probabilities are equal.
C15_VideoConfidence ==
  \A w \in Workers :
    AggregateCall(w) =>
      LET fr == vid[w].frame_results
          mean == RMean(Confidences(fr))
          confidence == out[w].val.confidence
      IN  /\ confidence =
               RMul(mean, RAdd(R(7, 10),
                               RMul(R(3, 10), out[w].val.temporal_consistency)))
          /\ out[w].val.temporal_consistency =
               AnalyzeTemporalConsistency(FakeProbabilities(fr))
          /\ RLe(RMul(R(7, 10), mean), confidence) /\ RLe(confidence, mean)
          /\ \E i \in 1..Len(fr) : RLe(confidence, fr[i].confidence)
          /\ (Len(fr) = 1 \/ AllEqual(FakeProbabilities(fr))) => confidence = mean

\* C15 happens: three frames of different fake probabilities were aggregated
\* to a confidence strictly between 0.7 * mean and the mean.
C15_Witness ==
  \E w \in Workers :
    /\ AggregateCall(w) /\ Len(vid[w].frame_results) = 3
    /\ ~AllEqual(FakeProbabilities(vid[w].frame_results))
    /\ RLt(out[w].val.confidence, RMean(Confidences(vid[w].frame_results)))
    /\ RGt(out[w].val.confidence,
           RMul(R(7, 10), RMean(Confidences(vid[w].frame_results))))

\* the cues the frames emitted, as a set
EmittedCues(frame_results) ==
  UNION {{frame_results[i].visual_cues[j] : j \in 1..Len(frame_results[i].visual_cues)} :
           i \in 1..Len(frame_results)}

\* C16: the aggregated cue list of a video has no duplicate, has at most 5
\* entries, holds only cues that some scored frame emitted, and holds every
\* distinct per-frame cue (exactly once) whenever there are at most 5 of them.
C16_CuesDeduplicated ==
  \A w \in Workers :
    AggregateCall(w) =>
      LET cues == out[w].val.visual_cues
          emitted == EmittedCues(vid[w].frame_results)
      IN  /\ \A i, j \in 1..Len(cues) : cues[i] = cues[j] => i = j
          /\ Len(cues) <= 5
          /\ \A i \in 1..Len(cues) : cues[i] \in emitted
          /\ Cardinality(emitted) <= 5 =>
               \A c \in emitted : Count(cues, c) = 1

\* C16 happens: frames that emitted 5 distinct cues, one of them by two
\* frames, were aggregated to a list of 5.
C16_Witness ==
  \E w \in Workers :
    /\ AggregateCall(w)
    /\ Cardinality(EmittedCues(vid[w].frame_results)) = 5
    /\ Len(Concat([i \in 1..Len(vid[w].frame_results) |->
                     vid[w].frame_results[i].visual_cues])) > 5
    /\ Len(out[w].val.visual_cues) = 5

\* C17: the aggregated cue list, members and order, is a function of the
\* per-frame cue lists alone: two analyses of the same frames, in the same
\* run or in two runs of the program, return the same list, also when more
\* than 5 distinct cues were emitted and the truncation chooses.
C17_CuesDeterministic ==
  \A w, u \in Workers :
    (AggregateCall(w) /\ AggregateCall(u)
       /\ vid[w].frame_results = vid[u].frame_results)
      => out[w].val.visual_cues = out[u].val.visual_cues

\* the members of a list
Members(s) == {s[i] : i \in 1..Len(s)}

\* w's image analysis has returned, and the image model returned the outcome
\* tagged tag to the manager
ImageOutcome(w, tag) ==
  /\ Done(w) /\ call[w].kind = "image" /\ call[w].exists
  /\ call[w].inner.val.model_used = tag

\* C18: the cue list of the image fallback path is never empty. It holds the
\* compression cue exactly when artifactScore > 0.6, the noise cue exactly
\* when noiseScore > 0.6, the color cue exactly when colorConsistency < 0.4,
\* and "No obvious artifacts detected" exactly when none of the three holds;
\* a score of exactly 0.6, or a consistency of exactly 0.4, gives no cue.
C18_FallbackCueRules ==
  \A w \in Workers :
    /\ (ImageOutcome(w, "Traditional CV Analysis") \/ ImageOutcome(w, "Error Fallback"))
         => call[w].inner.val.visual_cues # <<>>
    /\ ImageOutcome(w, "Traditional CV Analysis") =>
         LET cues == Members(call[w].inner.val.visual_cues)
             compression == RGt(DetectCompressionArtifacts(call[w].pic), R(6, 10))
             noise == RGt(AnalyzeNoisePatterns(call[w].pic), R(6, 10))
             color == RLt(AnalyzeColorConsistency(call[w].pic), R(4, 10))
         IN  /\ "Compression artifacts detected" \in cues <=> compression
             /\ "Inconsistent noise patterns" \in cues <=> noise
             /\ "Color inconsistencies detected" \in cues <=> color
             /\ "No obvious artifacts detected" \in cues
                  <=> ~(compression \/ noise \/ color)

\* C18 happens: the fallback path scored an image whose artifact and noise
\* scores are exactly 0.6 and whose color consistency is exactly 0.4, and
\* gave the single cue "No obvious artifacts detected".
C18_Witness ==
  \E w \in Workers :
    /\ ImageOutcome(w, "Traditional CV Analysis")
    /\ DetectCompressionArtifacts(call[w].pic) = R(6, 10)
    /\ AnalyzeNoisePatterns(call[w].pic) = R(6, 10)
    /\ AnalyzeColorConsistency(call[w].pic) = R(4, 10)
    /\ call[w].inner.val.visual_cues = <<"No obvious artifacts detected">>

\* w's audio analysis has returned, and the audio model returned the outcome
\* tagged tag to the manager
AudioOutcome(w, tag) ==
  /\ Done(w) /\ call[w].kind = "audio" /\ call[w].exists
  /\ call[w].inner.val.model_used = tag

\* the cue rules of the audio path
AudioCueRules(w) ==
  /\ (AudioOutcome(w, "Audio Spectral Analysis") \/ AudioOutcome(w, "Fallback Analysis"))
       => call[w].inner.val.visual_cues # <<>>
  /\ AudioOutcome(w, "Audio Spectral Analysis") =>
       LET cues == Members(call[w].inner.val.visual_cues)
           compression == RGt(DetectAudioArtifacts(call[w].clip), R(6, 10))
           spectral == RGt(AnalyzeSpectralFeatures(call[w].clip), R(6, 10))
           phase == RGt(AnalyzePhaseConsistency(call[w].clip), R(6, 10))
       IN  /\ "Audio compression artifacts detected" \in cues <=> compression
           /\ "Spectral inconsistencies found" \in cues <=> spectral
           /\ "Phase inconsistencies detected" \in cues <=> phase
           /\ "No obvious audio artifacts detected" \in cues
                <=> ~(compression \/ spectral \/ phase)

\* C19 as stated: the audio cue list is never empty; it holds the compression
\* cue exactly when artifactScore > 0.6, the spectral cue exactly when
\* spectralScore > 0.6, the phase cue exactly when phaseScore > 0.6, and "No
\* obvious audio artifacts detected" exactly when none holds; and so an
\* outcome with is_fake true always carries at least one artifact cue.
C19_FakeAudioHasArtifactCue ==
  \A w \in Workers :
    /\ AudioCueRules(w)
    /\ (AudioOutcome(w, "Audio Spectral Analysis") /\ call[w].inner.val.is_fake)
         => "No obvious audio artifacts detected"
              \notin Members(call[w].inner.val.visual_cues)

\* C19, amended: the cue rules alone. An outcome with is_fake true can carry
\* the no-artifact cue only: the verdict is taken at a mean score above 0.5,
\* the cues at single scores above 0.6.
C19_AudioCueRules == \A w \in Workers : AudioCueRules(w)

\* C19 happens: scores of 0.6, 0.6 and 0.4 gave the verdict fake and the
\* single cue "No obvious audio artifacts detected".
C19_Witness ==
  \E w \in Workers :
    /\ AudioOutcome(w, "Audio Spectral Analysis")
    /\ DetectAudioArtifacts(call[w].clip) = R(6, 10)
    /\ AnalyzeSpectralFeatures(call[w].clip) = R(6, 10)
    /\ AnalyzePhaseConsistency(call[w].clip) = R(4, 10)
    /\ call[w].inner.val.is_fake
    /\ call[w].inner.val.visual_cues = <<"No obvious audio artifacts detected">>

\* the cues that speak of faces
PerFaceCues(i) ==
  {"Face " \o ToString(i) \o ": Potential artifacts detected",
   "Face " \o ToString(i) \o ": No obvious artifacts"}

FaceCues ==
  {"No faces detected", "Face analysis failed"}
    \cup {"Detected " \o ToString(k) \o " face(s)" : k \in 1..MaxFaces}
    \cup UNION {PerFaceCues(i) : i \in 1..MaxFaces}

\* the cue list holds the face cues of an image with nfaces faces: one
\* per-face cue for each face, or "No faces detected" when there is none
HasFaceCues(cues, nfaces) ==
  IF nfaces = 0 THEN "No faces detected" \in cues
  ELSE \A i \in 1..nfaces : Cardinality(PerFaceCues(i) \cap cues) = 1

\* C20 as stated: with face detection working, the outcome of the primary
\* path and the outcome of the fallback path each hold a per-face cue for
\* each of the k >= 1 faces of the image, and "No faces detected" when k = 0.
C20_FaceCuesOnBothPaths ==
  \A w \in Workers :
    ((ImageOutcome(w, "Hugging Face ResNet-50 + CV Analysis")
        \/ ImageOutcome(w, "Traditional CV Analysis"))
       /\ call[w].face = "ok")
      => HasFaceCues(Members(call[w].inner.val.visual_cues), call[w].nfaces)

\* C20, amended: with face detection working, the outcome of the primary
\* path holds a per-face cue for each of the k >= 1 faces of the image, and
\* "No faces detected" when k = 0. The outcomes of the fallback path hold no
\* face cue at all, whatever the faces of the image.
C20_FaceCuesOnPrimaryPath ==
  \A w \in Workers :
    /\ (ImageOutcome(w, "Hugging Face ResNet-50 + CV Analysis") /\ call[w].face = "ok")
         => HasFaceCues(Members(call[w].inner.val.visual_cues), call[w].nfaces)
    /\ (ImageOutcome(w, "Traditional CV Analysis") \/ ImageOutcome(w, "Error Fallback"))
         => Members(call[w].inner.val.visual_cues) \cap FaceCues = {}

\* C20 happens: an image of one face was scored on the primary path, with
\* the cue of face 1 in the outcome.
C20_Witness ==
  \E w \in Workers :
    /\ ImageOutcome(w, "Hugging Face ResNet-50 + CV Analysis")
    /\ call[w].face = "ok" /\ call[w].nfaces = 1
    /\ call[w].inner.val.visual_cues =
         <<"Detected 1 face(s)", "Face 1: No obvious artifacts">>

\* C21: on the primary image path the fake score lies in [0.1, 0.9] and the
\* confidence is min(0.7 * fakeScore + 0.3, 0.9); so the confidence lies in
\* [0.37, 0.9], and is 0.9 exactly when fakeScore >= 6/7.
C21_PrimaryConfidence ==
  \A w \in Workers :
    ImageOutcome(w, "Hugging Face ResNet-50 + CV Analysis") =>
      LET fake_score == call[w].inner.val.fake_probability
          confidence == call[w].inner.val.confidence
      IN  /\ RLe(R(1, 10), fake_score) /\ RLe(fake_score, R(9, 10))
          /\ confidence = RMin(RAdd(RMul(R(7, 10), fake_score), R(3, 10)), R(9, 10))
          /\ RLe(R(37, 100), confidence) /\ RLe(confidence, R(9, 10))
          /\ (confidence = R(9, 10)) <=> RLe(R(6, 7), fake_score)

\* C21 happens: a fake score of 0.86, between 6/7 and the clamp, got the
\* confidence 0.9.
C21_Witness ==
  \E w \in Workers :
    /\ ImageOutcome(w, "Hugging Face ResNet-50 + CV Analysis")
    /\ call[w].inner.val.fake_probability = R(86, 100)
    /\ call[w].inner.val.confidence = R(9, 10)

\* w has scored a picture on the fallback path, or a clip
HeuristicOutcome(w) ==
  ImageOutcome(w, "Traditional CV Analysis") \/ AudioOutcome(w, "Audio Spectral Analysis")

\* the three component scores of w's outcome
Components(w) ==
  IF call[w].kind = "image"
  THEN <<DetectCompressionArtifacts(call[w].pic), AnalyzeNoisePatterns(call[w].pic),
         RSub(One, AnalyzeColorConsistency(call[w].pic))>>
  ELSE <<DetectAudioArtifacts(call[w].clip), AnalyzeSpectralFeatures(call[w].clip),
         AnalyzePhaseConsistency(call[w].clip)>>

\* C22: on the image fallback path and on the audio path the three component
\* scores are in [0, 1], the fake score is their arithmetic mean (the image
\* path using 1 - colorConsistency as the third), and the confidence is
\* min(0.8 * fakeScore + 0.2, 0.95); so the confidence lies in [0.2, 0.95],
\* does not decrease when the fake score grows, and is above 0.6 in every
\* outcome with is_fake true.
C22_HeuristicConfidence ==
  \A w \in Workers :
    HeuristicOutcome(w) =>
      LET r == call[w].inner.val
      IN  /\ \A i \in 1..3 : InUnit(Components(w)[i])
          /\ r.fake_probability = RMean(Components(w))
          /\ r.confidence =
               RMin(RAdd(RMul(R(8, 10), r.fake_probability), R(2, 10)), R(95, 100))
          /\ RLe(R(2, 10), r.confidence) /\ RLe(r.confidence, R(95, 100))
          /\ r.is_fake => RGt(r.confidence, R(6, 10))
          /\ \A u \in Workers :
               (HeuristicOutcome(u)
                  /\ RLe(r.fake_probability, call[u].inner.val.fake_probability))
                 => RLe(r.confidence, call[u].inner.val.confidence)

\* C22 happens: a picture scored at the cap 0.95 and a clip whose fake score
\* is just above 0.5 with a confidence above 0.6.
C22_Witness ==
  \E w, u \in Workers :
    /\ ImageOutcome(w, "Traditional CV Analysis")
    /\ call[w].inner.val.confidence = R(95, 100)
    /\ AudioOutcome(u, "Audio Spectral Analysis")
    /\ call[u].inner.val.is_fake
    /\ RLt(call[u].inner.val.fake_probability, R(6, 10))
    /\ RGt(call[u].inner.val.confidence, R(6, 10))

\* the picture has one color: no high-frequency energy, no noise, no spread
\* of saturation or value
Uniform(pic) ==
  pic.ratio = 0 /\ pic.noise_var = 0 /\ pic.sat_std = 0 /\ pic.val_std = 0

\* w's image analysis has returned for a readable picture of one color,
\* scored by an image model without the classifier
UniformCall(w) ==
  /\ Done(w) /\ call[w].kind = "image" /\ call[w].exists
  /\ call[w].im.model = None /\ call[w].cv = "ok" /\ Uniform(call[w].pic)

\* C23: a picture of one color scored without the classifier is scored by
\* the fallback path: is_fake is false, the confidence lies in [0.2, 0.4] and
\* the cues contain "No obvious artifacts detected"; so does the result the
\* manager returns for it.
C23_UniformImage ==
  \A w \in Workers :
    UniformCall(w) =>
      LET r == call[w].inner.val
      IN  /\ r.model_used = "Traditional CV Analysis"
          /\ call[w].inner.steps = <<"fallback">>
          /\ ~r.is_fake
          /\ RLe(R(2, 10), r.confidence) /\ RLe(r.confidence, R(4, 10))
          /\ "No obvious artifacts detected" \in Members(r.visual_cues)
          /\ call[w].metrics = "ok" =>
               /\ out[w].val.model_used = "Traditional CV Analysis"
               /\ ~out[w].val.is_fake
               /\ out[w].val.confidence = r.confidence
               /\ out[w].val.metadata.visual_cues = r.visual_cues

\* C23 happens: the manager returned the fallback outcome, confidence 0.2,
\* for a picture of one color.
C23_Witness ==
  \E w \in Workers :
    /\ UniformCall(w) /\ call[w].metrics = "ok"
    /\ out[w].val.model_used = "Traditional CV Analysis"
    /\ out[w].val.confidence = R(2, 10)
    /\ out[w].val.metadata.visual_cues = <<"No obvious artifacts detected">>

(***************************************************************************)
(* The upload endpoint.                                                    *)
(***************************************************************************)
\* worker w's request to POST / is answered in this step
Answered(w) == pc[w] = "idle" /\ pc'[w] # "idle" /\ call'[w].kind = "upload"

AllowedExtensions ==
  ALLOWED_IMAGE_EXTENSIONS \cup ALLOWED_VIDEO_EXTENSIONS \cup ALLOWED_AUDIO_EXTENSIONS

Unsupported(filename) == lower(suffix(filename)) \notin AllowedExtensions

WithinLimit(size) == size <= MAX_FILE_SIZE

\* the step wrote no file, saved no record, counted no upload, added no task
NoEffect == files' = files /\ server' = server

Rejected(response, status_code, text) ==
  /\ response.status_code = status_code
  /\ response.detail.text = text

\* C24, as stated: an upload whose extension is in none of the three allowed
\* lists is answered 400 "Unsupported file type", and the step that answers it
\* writes no file, saves no upload record, records no metric and adds no
\* background task.
C24_UnsupportedRejected ==
  [][\A w \in Workers :
       Answered(w) /\ Unsupported(call'[w].req.filename)
         => /\ Rejected(out'[w], 400, "Unsupported file type")
            /\ NoEffect]_vars

\* C24, amended: the size test comes first, so the 400 answer is that of an
\* unsupported extension on a file within MAX_FILE_SIZE; above it the answer
\* is 413 whatever the extension. Either rejection has no effect.
C24_UnsupportedWithinLimitRejected ==
  [][\A w \in Workers :
       Answered(w) /\ Unsupported(call'[w].req.filename)
         => /\ IF WithinLimit(call'[w].req.size)
               THEN Rejected(out'[w], 400, "Unsupported file type")
               ELSE Rejected(out'[w], 413, "File size exceeds maximum limit")
            /\ NoEffect]_vars

\* an unsupported upload was rejected after another upload had been accepted:
\* the id, the record, the count and the task are those of the accepted one
C24_Witness ==
  \E w, v \in Workers :
    /\ pc[w] = "done" /\ call[w].kind = "upload"
    /\ Unsupported(call[w].req.filename)
    /\ out[w].status_code = 400
    /\ pc[v] # "idle" /\ call[v].kind = "upload" /\ out[v].status_code = 200
    /\ Cardinality(server.uuids) = 1
    /\ Cardinality(server.file_uploads) = 1
    /\ server.FILE_UPLOADS = 1
    /\ Cardinality(server.background_tasks) = 1

\* image, video or audio, by the list that holds the lower-cased extension
ExtensionClass(filename) ==
  IF lower(suffix(filename)) \in ALLOWED_IMAGE_EXTENSIONS THEN "image"
  ELSE IF lower(suffix(filename)) \in ALLOWED_VIDEO_EXTENSIONS THEN "video"
  ELSE "audio"

\* the step wrote the upload to disk in full
FileSaved(w) ==
  /\ call'[w].req.io = "ok"
  /\ \E d \in DOMAIN files : files'[d] # files[d]

TasksFor(file_id) == {t \in server'.background_tasks : t.file_id = file_id}

\* C25: an upload with an allowed extension and a size within MAX_FILE_SIZE,
\* whose file is saved and whose upload record is inserted, is answered 200
\* with a file_id issued to no earlier upload, the file_type of its extension
\* and status "uploaded", and the step adds exactly one background task, for
\* that file_id and file_type.
C25_ValidUploadAccepted ==
  [][\A w \in Workers :
       /\ Answered(w)
       /\ ~Unsupported(call'[w].req.filename)
       /\ WithinLimit(call'[w].req.size)
       /\ FileSaved(w)
       /\ call'[w].req.db_ok
       => /\ out'[w].status_code = 200
          /\ out'[w].file_id \notin server.uuids
          /\ \A r \in server.file_uploads \cup server.background_tasks :
               r.file_id # out'[w].file_id
          /\ out'[w].file_type = ExtensionClass(call'[w].req.filename)
          /\ out'[w].status = "uploaded"
          /\ Cardinality(server'.background_tasks \ server.background_tasks) = 1
          /\ Cardinality(TasksFor(out'[w].file_id)) = 1
          /\ \A t \in TasksFor(out'[w].file_id) :
               t.file_type = out'[w].file_type]_vars

\* an image with an upper-case extension and an audio file were both
\* accepted, under two ids, with one task each
C25_Witness ==
  \E w, v \in Workers :
    /\ pc[w] # "idle" /\ call[w].kind = "upload" /\ out[w].status_code = 200
    /\ pc[v] # "idle" /\ call[v].kind = "upload" /\ out[v].status_code = 200
    /\ call[w].req.filename = <<"a", ".", "J", "P", "G">>
    /\ out[w].file_type = "image"
    /\ out[v].file_type = "audio"
    /\ out[w].file_id # out[v].file_id
    /\ Cardinality(server.background_tasks) = 2

(***************************************************************************)
(* The background task and the status endpoint.                            *)
(***************************************************************************)
\* worker w's upload was accepted: its background task was added
Accepted(w) == pc[w] # "idle" /\ call[w].kind = "upload" /\ out[w].status_code = 200

\* what GET /{file_id}/status answers for worker w's upload
StatusOf(w) == get_analysis_status(server, out[w].file_id)

\* C26: while the background task of an upload is past its first status
\* update and not yet ended, the status endpoint answers "processing"; once
\* processing has raised and the task has ended, it answers "failed" with the
\* error message; a task that has ended leaves "completed" or "failed",
\* never "pending".
C26_StatusFollowsProcessing ==
  \A w \in Workers :
    Accepted(w) =>
      /\ pc[w] \in {"processing", "save"}
           => StatusOf(w).analysis_status = "processing"
      /\ pc[w] = "done" /\ call[w].error # None
           => /\ StatusOf(w).analysis_status = "failed"
              /\ StatusOf(w).error_message = call[w].error
      /\ pc[w] = "done"
           => StatusOf(w).analysis_status \in {"completed", "failed"}

\* what the code does: the status is "pending" until the result is inserted
\* and "completed" from then on
C26_PendingUntilSaved ==
  \A w \in Workers :
    Accepted(w) =>
      /\ StatusOf(w).status_code = 200
      /\ StatusOf(w).analysis_status =
           IF find_one(server.analysis_results, out[w].file_id) = {}
           THEN "pending" ELSE "completed"
      /\ pc[w] # "done" => StatusOf(w).analysis_status = "pending"
      /\ pc[w] = "done" /\ call[w].error # None
           => StatusOf(w).analysis_status = "pending"

\* a task whose processing raised has ended and the status is still "pending"
C26_Witness ==
  \E w \in Workers :
    /\ Accepted(w) /\ pc[w] = "done" /\ call[w].error # None
    /\ StatusOf(w).analysis_status = "pending"

(***************************************************************************)
(* The upload directories.                                                 *)
(***************************************************************************)
\* the directory upload_file writes an upload of the given file type into
UploadDir(file_type) == get_upload_path(file_type, <<>>).dir

\* C27: the directory a valid upload is written into (UPLOAD_DIR joined with
\* its file type) is one of those the configuration creates, so an upload
\* with an allowed extension and a size within the limit, whose write meets
\* no I/O error, is not answered "Failed to save uploaded file".
C27_UploadDirsCreated ==
  \A w \in Workers :
    /\ pc[w] # "idle" /\ call[w].kind = "upload"
    /\ ~Unsupported(call[w].req.filename)
    /\ WithinLimit(call[w].req.size)
    /\ call[w].req.io = "ok"
    => /\ UploadDir(ExtensionClass(call[w].req.filename)) \in ConfigDirs
       /\ ~Rejected(out[w], 500, "Failed to save uploaded file")

(***************************************************************************)
(* The image fallback path's own failure.                                  *)
(***************************************************************************)
\* w's image analysis of an existing file ran the fallback path, whose
\* decoding of the file failed
FallbackPathFailed(w) ==
  /\ Done(w) /\ call[w].kind = "image" /\ call[w].exists
  /\ "fallback" \in Members(call[w].inner.steps)
  /\ call[w].cv # "ok"

\* C28: when the fallback path itself fails, RealImageModel.analyze_image
\* returns, without raising, is_fake false, the three values 0.5 and the one
\* cue "Analysis failed" under the tag "Error Fallback"; the manager's result
\* then has confidence 0.5 and that tag, with no error in its metadata, and
\* is not the confidence-0.0 "Error" outcome (as long as the manager's own
\* metric recording does not fail).
C28_FallbackFailureIsNeutral ==
  \A w \in Workers :
    FallbackPathFailed(w) =>
      /\ ~call[w].inner.raised
      /\ call[w].inner.val =
           [is_fake |-> FALSE, confidence |-> R(1, 2), fake_probability |-> R(1, 2),
            real_probability |-> R(1, 2), visual_cues |-> <<"Analysis failed">>,
            model_used |-> "Error Fallback"]
      /\ call[w].metrics = "ok" =>
           /\ ~out[w].raised
           /\ out[w].val.confidence = R(1, 2)
           /\ ~out[w].val.is_fake
           /\ out[w].val.model_used = "Error Fallback"
           /\ "error" \notin DOMAIN out[w].val.metadata

\* an existing file that neither the classifier path nor the fallback path
\* can decode, analysed by a manager whose classifier is loaded
C28_Witness ==
  \E w \in Workers :
    /\ FallbackPathFailed(w)
    /\ call[w].hf = "load" /\ call[w].cv = "unreadable" /\ call[w].metrics = "ok"
    /\ call[w].inner.steps = <<"primary", "fallback">>
    /\ out[w].val.confidence = R(1, 2)
    /\ out[w].val.model_used = "Error Fallback"

(***************************************************************************)
(* A stride of 0.                                                          *)
(***************************************************************************)
\* w analyses a video that opens and reports fewer frames per second than
\* the sampling rate, 0 included
ZeroStride(w) ==
  /\ call[w].kind = "video"
  /\ vid[w].src.exists /\ vid[w].src.opens
  /\ vid[w].src.fps100 < 100 * FrameRate

\* C29: on a source whose stride is 0, _extract_frames has read nothing
\* while it runs, its first iteration ends it without a frame written or
\* returned, no frame is ever scored, and analyze_video returns the fixed
\* neutral outcome with frames_analyzed 0.
C29_ZeroStrideIsNeutral ==
  /\ [](\A w \in Workers :
          ZeroStride(w) =>
            /\ pc[w] \notin {"rv_score", "rv_remove"}
            /\ pc[w] = "rv_extract" => vid[w].frame_count = 0 /\ vid[w].frames = <<>>)
  /\ [][\A w \in Workers :
          ZeroStride(w) /\ pc[w] = "rv_extract" /\ vid'[w] # vid[w]
            => /\ pc'[w] = "vp_open"
               /\ files' = files
               /\ vid'[w].frames = <<>>
               /\ vid'[w].frame_results = <<>>
               /\ vid'[w].result =
                    [is_fake |-> FALSE, confidence |-> R(1, 2),
                     fake_probability |-> R(1, 2), real_probability |-> R(1, 2),
                     visual_cues |-> <<"Video analysis failed">>,
                     model_used |-> "Fallback Analysis", frames_analyzed |-> 0,
                     temporal_consistency |-> R(1, 2)]]_vars

\* a two-frame source that reports 0 frames per second and one that reports
\* 0.5 have both left the extraction with the neutral outcome
C29_Witness ==
  \E w, v \in Workers :
    /\ ZeroStride(w) /\ vid[w].src.fps100 = 0 /\ vid[w].src.nframes = 2
    /\ ZeroStride(v) /\ vid[v].src.fps100 = 50 /\ vid[v].src.nframes = 2
    /\ pc[w] \notin {"idle", "rv_extract"}
    /\ pc[v] \notin {"idle", "rv_extract"}
    /\ vid[w].result.frames_analyzed = 0
    /\ vid[v].result.frames_analyzed = 0
    /\ vid[v].result.model_used = "Fallback Analysis"

(***************************************************************************)
(* The per-face artifact test.                                             *)
(***************************************************************************)
\* w's image was scored by the classifier path, which looked at its faces
FacesCued(w) ==
  /\ Done(w) /\ call[w].kind = "faces"
  /\ call[w].inner.val.model_used = "Hugging Face ResNet-50 + CV Analysis"

\* C30: the edge density of a face region, the sum of a map of 0s and 255s
\* over its area, is at most 255 and so never above 1000: the artifact test
\* is false for every face, no cue "Potential artifacts detected" is emitted
\* and face i gets the cue "Face i: No obvious artifacts".
C30_NoFaceArtifactCue ==
  \A w \in Workers :
    FacesCued(w) =>
      LET faces == call[w].faces
          cues == call[w].inner.val.visual_cues
      IN  /\ \A i \in 1..Len(faces) :
               /\ 255 * faces[i].edges <= 255 * faces[i].area
               /\ ~CheckFaceArtifacts(faces[i])
               /\ cues[i + 1] = "Face " \o ToString(i) \o ": No obvious artifacts"
          /\ \A i \in 1..(MaxFaces + 1) :
               "Face " \o ToString(i) \o ": Potential artifacts detected"
                 \notin Members(cues)
          /\ Len(cues) = IF faces = <<>> THEN 1 ELSE Len(faces) + 1

\* an image with two faces, one without any edge and one that is all edges
C30_Witness ==
  \E w \in Workers :
    /\ FacesCued(w)
    /\ call[w].faces = <<[edges |-> 0, area |-> 4], [edges |-> 4, area |-> 4]>>
    /\ call[w].inner.val.visual_cues =
         <<"Detected 2 face(s)", "Face 1: No obvious artifacts",
           "Face 2: No obvious artifacts">>

====
